---- MODULE Spec2Model ----
(***************************************************************************)
(* Model of the DNS forwarder engine (proxy/src/dns_forwarder.cpp):        *)
(* the request pipeline handle_message, the response cache, the blocking   *)
(* response synthesizer, the filter adapter and the upstream dispatcher.   *)
(*                                                                         *)
(* Encoding conventions                                                    *)
(*  - std::optional<T> / nullable pointers to small values are sequences   *)
(*    of length 0 (empty) or 1 (engaged).                                  *)
(*  - a domain name (ldns dname rdf) is the sequence of its wire labels;   *)
(*    the root name is <<>>.  Its presentation string (ldns_rdf2str) is    *)
(*    the record [labels, dot] where dot tells whether the string ends in  *)
(*    the root dot.                                                        *)
(*  - time is counted in ticks of 1/TicksPerSec second.                    *)
(***************************************************************************)
EXTENDS Integers, Sequences, FiniteSets, TLC

-----------------------------------------------------------------------------
(* Bounds of the model *)

MaxTime == 3
MaxCacheSize == 1
MaxTtl == 2

(* Program constants *)

SOA_RETRY_DEFAULT == 900
SOA_RETRY_IPV6_BLOCK == 60
UDP_RECV_BUF_SIZE == 4096
TicksPerSec == 2
HeaderSize == 12

MOZILLA_DOH_HOST == [labels |-> <<"use-application-dns", "net">>, dot |-> TRUE]

Nullopt == <<>>
Some(x) == <<x>>
NoPkt == [null |-> TRUE]

-----------------------------------------------------------------------------
(* Generic helpers on sequences *)

Filter(s, Test(_)) == SelectSeq(s, Test)

Contains(s, x) == \E i \in 1..Len(s) : s[i] = x

Min2(a, b) == IF a < b THEN a ELSE b

-----------------------------------------------------------------------------
(* ldns packets and resource records *)

\* ldns_pkt_new
ldns_pkt_new ==
    [id |-> 0, qr |-> FALSE, aa |-> FALSE, tc |-> FALSE, rd |-> FALSE,
     ra |-> FALSE, cd |-> FALSE, rcode |-> "NOERROR",
     question |-> <<>>, answer |-> <<>>, authority |-> <<>>, additional |-> <<>>,
     edns_do |-> FALSE, edns_data |-> FALSE, edns_extended_rcode |-> 0,
     edns_unassigned |-> 0, edns_udp_size |-> 0]

Question(name, type, class) == [owner |-> name, type |-> type, class |-> class]

RR(owner, type, class, ttl, rdfs) ==
    [owner |-> owner, type |-> type, class |-> class, ttl |-> ttl, rdfs |-> rdfs]

\* ldns_pkt_edns: the packet carries an OPT pseudo-record
ldns_pkt_edns(pkt) ==
    \/ pkt.edns_udp_size > 0
    \/ pkt.edns_extended_rcode > 0
    \/ pkt.edns_data
    \/ pkt.edns_do
    \/ pkt.edns_unassigned > 0

\* ldns_rdf2str of a dname: absolute presentation form
ldns_rdf2str(name) == [labels |-> name, dot |-> TRUE]

\* std::tolower on every octet of a label
ToLowerLabel(l) ==
    CASE l = "USE-APPLICATION-DNS" -> "use-application-dns"
      [] l = "NET" -> "net"
      [] l = "OK" -> "ok"
      [] l = "EXAMPLE" -> "example"
      [] OTHER -> l

ToLowerName(name) == [i \in 1..Len(name) |-> ToLowerLabel(name[i])]

\* size of the wire image of a packet: header plus one unit per record
WireSize(pkt) ==
    HeaderSize + Len(pkt.question) + Len(pkt.answer)
               + Len(pkt.authority) + Len(pkt.additional)

EmptyBuffer == [size |-> 0, pkt |-> NoPkt]

transform_response_to_raw_data(message) ==
    [size |-> WireSize(message), pkt |-> message]

\* ldns_wire2pkt: a buffer shorter than the header does not parse
ldns_wire2pkt(message) ==
    IF message.size < HeaderSize \/ message.pkt = NoPkt
    THEN [status |-> "LDNS_STATUS_PACKET_OVERFLOW", pkt |-> NoPkt]
    ELSE [status |-> "LDNS_STATUS_OK", pkt |-> message.pkt]

-----------------------------------------------------------------------------
(* Cache key *)

\* the octets of a label between the dots it holds: a label of the wire
\* format is any string of octets, the dot among them
LabelPieces(l) ==
    CASE l = "a.b" -> <<"a", "b">>
      [] l = "b.c" -> <<"b", "c">>
      [] OTHER -> <<l>>

\* the characters lines 52-63 push for the labels of a name: the octets of
\* each label in lower case and the dot that follows the label
RECURSIVE NameChars(_)
NameChars(name) ==
    IF name = <<>> THEN <<>>
    ELSE LET pieces == LabelPieces(ToLowerLabel(Head(name)))
             chars == [i \in 1..(2 * Len(pieces)) |->
                         IF i % 2 = 1 THEN pieces[(i + 1) \div 2] ELSE "."]
         IN  chars \o NameChars(Tail(name))

\* variant: the key without the CD bit
get_cache_key_without_cd(request) ==
    LET question == request.question[1]
    IN  <<question.type, question.class, request.edns_do, FALSE,
          IF question.owner = <<>> THEN <<".">> ELSE NameChars(question.owner)>>

\* lines 37-69: type|class|DO CD|name, the name as the string of its labels
get_cache_key(request) ==
    LET question == request.question[1]
    IN  <<question.type, question.class, request.edns_do, request.cd,
          IF question.owner = <<>> THEN <<".">> ELSE NameChars(question.owner)>>

-----------------------------------------------------------------------------
(* Response templates *)

create_response_by_request(request) ==
    [ldns_pkt_new EXCEPT
        !.rd = TRUE, !.ra = TRUE,
        !.id = request.id,
        !.qr = TRUE,
        !.question = request.question]

get_mbox(request) ==
    LET zone == ldns_rdf2str(request.question[1].owner)
    IN  <<"hostmaster">> \o (IF Len(zone.labels) > 0 THEN zone.labels ELSE <<>>)

create_soa(request, s, retry_secs) ==
    RR(request.question[1].owner, "SOA", "IN", s.blocked_response_ttl_secs,
       <<[mname |-> <<"fake-for-negative-caching", "adguard", "com">>,
          rname |-> get_mbox(request),
          refresh |-> 1800, retry |-> retry_secs,
          expire |-> 604800, minimum |-> 86400]>>)

\* variant: the NXDOMAIN response with the RETRY of the IPv6 block
create_nxdomain_response_retry_60(request, s) ==
    [create_response_by_request(request) EXCEPT
        !.rcode = "NXDOMAIN",
        !.authority = <<create_soa(request, s, SOA_RETRY_IPV6_BLOCK)>>]

create_nxdomain_response(request, s) ==
    [create_response_by_request(request) EXCEPT
        !.rcode = "NXDOMAIN",
        !.authority = <<create_soa(request, s, 900)>>]

\* variant: the response that refuses without saying so
create_refused_response_noerror(request, s) == create_response_by_request(request)

create_refused_response(request, s) ==
    [create_response_by_request(request) EXCEPT !.rcode = "REFUSED"]

\* variant: the SOA response built with the default RETRY whatever was asked for
create_soa_response_default_retry(request, s, retry_secs) ==
    [create_response_by_request(request) EXCEPT
        !.rcode = "NOERROR",
        !.authority = <<create_soa(request, s, SOA_RETRY_DEFAULT)>>]

create_soa_response(request, s, retry_secs) ==
    [create_response_by_request(request) EXCEPT
        !.rcode = "NOERROR",
        !.authority = <<create_soa(request, s, retry_secs)>>]

\* variant: a SERVFAIL response that is not made from the request
create_servfail_response_fresh(request) ==
    [ldns_pkt_new EXCEPT !.qr = TRUE, !.rcode = "SERVFAIL"]

create_servfail_response(request) ==
    [create_response_by_request(request) EXCEPT !.rcode = "SERVFAIL"]

\* utils::is_valid_ip4 / is_valid_ip6 on the address literals of the model
Ip4Literals == {"0.0.0.0", "127.0.0.1", "10.0.0.1", "10.0.0.2", "6.6.6.6", "1.1.1.1"}
Ip6Literals == {"::", "::1", "2001:db8::1"}
is_valid_ip4(str) == str \in Ip4Literals
is_valid_ip6(str) == str \in Ip6Literals

RuleIps(rules) == [i \in 1..Len(rules) |-> rules[i].ip[1]]

\* one answer RR that receives one RDF per rule
create_arecord_response(request, s, rules) ==
    LET answer == RR(request.question[1].owner, "A", "IN",
                     s.blocked_response_ttl_secs, RuleIps(rules))
    IN  [create_response_by_request(request) EXCEPT !.answer = <<answer>>]

create_aaaarecord_response(request, s, rules) ==
    LET answer == RR(request.question[1].owner, "AAAA", "IN",
                     s.blocked_response_ttl_secs, RuleIps(rules))
    IN  [create_response_by_request(request) EXCEPT !.answer = <<answer>>]

create_response_with_ips(request, s, rules) ==
    LET type == request.question[1].type
        IsV4(r) == is_valid_ip4(r.ip[1])
        NotV4(r) == ~is_valid_ip4(r.ip[1])
        ipv4_rules == Filter(rules, IsV4)
        ipv6_rules == Filter(rules, NotV4)
    IN  IF type = "A" /\ Len(ipv4_rules) > 0
        THEN create_arecord_response(request, s, ipv4_rules)
        ELSE IF type = "AAAA" /\ Len(ipv6_rules) > 0
        THEN create_aaaarecord_response(request, s, ipv6_rules)
        ELSE create_soa_response(request, s, SOA_RETRY_DEFAULT)

\* variant: the unspecified address whatever the mode
create_unspec_address_response(request, s) ==
    LET question == request.question[1]
        rr == RR(question.owner, question.type, question.class,
                 s.blocked_response_ttl_secs,
                 <<IF question.type = "A" THEN "0.0.0.0" ELSE "::">>)
    IN  [create_response_by_request(request) EXCEPT !.answer = <<rr>>]

create_unspec_or_custom_address_response(request, s) ==
    LET question == request.question[1]
        type == question.type
        custom == s.blocking_mode = "CUSTOM_ADDRESS"
        addr == IF type = "A"
                THEN (IF custom THEN s.custom_blocking_ipv4 ELSE "0.0.0.0")
                ELSE (IF custom THEN s.custom_blocking_ipv6 ELSE "::")
        rr == RR(question.owner, type, question.class,
                 s.blocked_response_ttl_secs, <<addr>>)
    IN  IF custom /\ type = "A" /\ s.custom_blocking_ipv4 = ""
        THEN create_soa_response(request, s, SOA_RETRY_DEFAULT)
        ELSE IF custom /\ type = "AAAA" /\ s.custom_blocking_ipv6 = ""
        THEN create_soa_response(request, s, SOA_RETRY_DEFAULT)
        ELSE [create_response_by_request(request) EXCEPT !.answer = <<rr>>]

BLOCKING_IPS == {"0.0.0.0", "127.0.0.1", "::", "::1", "[::]", "[::1]"}

\* variant: only the first rule is looked at
first_rule_has_blocking_ip(rules) == rules[1].ip # Nullopt /\ rules[1].ip[1] \in BLOCKING_IPS

rules_contain_blocking_ip(rules) ==
    \E i \in 1..Len(rules) : rules[i].ip # Nullopt /\ rules[i].ip[1] \in BLOCKING_IPS

create_blocking_response(request, s, rules) ==
    LET effective_rule == rules[1]
        type == request.question[1].type
        mode == s.blocking_mode
    IN  IF type # "A" /\ type # "AAAA"
        THEN CASE mode = "DEFAULT" ->
                    IF effective_rule.ip = Nullopt
                    THEN create_refused_response(request, s)
                    ELSE create_soa_response(request, s, SOA_RETRY_DEFAULT)
               [] mode = "REFUSED" -> create_refused_response(request, s)
               [] mode = "NXDOMAIN" -> create_nxdomain_response(request, s)
               [] mode \in {"UNSPECIFIED_ADDRESS", "CUSTOM_ADDRESS"} ->
                    create_soa_response(request, s, SOA_RETRY_DEFAULT)
        ELSE IF effective_rule.ip = Nullopt
        THEN CASE mode \in {"DEFAULT", "REFUSED"} -> create_refused_response(request, s)
               [] mode = "NXDOMAIN" -> create_nxdomain_response(request, s)
               [] mode \in {"UNSPECIFIED_ADDRESS", "CUSTOM_ADDRESS"} ->
                    create_unspec_or_custom_address_response(request, s)
        ELSE IF rules_contain_blocking_ip(rules)
        THEN CASE mode = "REFUSED" -> create_refused_response(request, s)
               [] mode = "NXDOMAIN" -> create_nxdomain_response(request, s)
               [] mode \in {"DEFAULT", "UNSPECIFIED_ADDRESS", "CUSTOM_ADDRESS"} ->
                    create_unspec_or_custom_address_response(request, s)
        ELSE create_response_with_ips(request, s, rules)

-----------------------------------------------------------------------------
(* Filter adapter.  The rule engine itself is an external collaborator: the *)
(* rule list below stands for the loaded filter, match and                  *)
(* get_effective_rules for its interface.                                   *)

Rule(pattern, text, filter_id, ip, exception) ==
    [pattern |-> pattern, text |-> text, filter_id |-> filter_id,
     ip |-> ip, exception |-> exception]

RuleTable ==
    << Rule(<<"ads", "example">>, "||ads.example^", 1, Nullopt, FALSE),
       Rule(<<"white", "example">>, "||white.example^", 1, Nullopt, FALSE),
       Rule(<<"white", "example">>, "@@||white.example^", 2, Nullopt, TRUE),
       Rule(<<"hosts", "example">>, "10.0.0.1 hosts.example", 2, Some("10.0.0.1"), FALSE),
       Rule(<<"tracker", "example">>, "||tracker.example^", 1, Nullopt, FALSE),
       Rule(<<"6.6.6.6">>, "6.6.6.6", 2, Nullopt, FALSE),
       Rule(<<"sink", "example">>, "0.0.0.0 sink.example", 2, Some("0.0.0.0"), FALSE),
       Rule(<<"mixed", "example">>, "10.0.0.2 mixed.example", 2, Some("10.0.0.2"), FALSE),
       Rule(<<"mixed", "example">>, "::1 mixed.example", 2, Some("::1"), FALSE),
       Rule(<<"cdn", "example">>, "10.0.0.1 cdn.example", 2, Some("10.0.0.1"), FALSE),
       Rule(<<"cdn", "example">>, "10.0.0.2 cdn.example", 2, Some("10.0.0.2"), FALSE),
       Rule(<<"cdn", "example">>, "2001:db8::1 cdn.example", 2, Some("2001:db8::1"), FALSE),
       Rule(<<"safe", "example">>, "@@||safe.example^", 1, Nullopt, TRUE) >>

\* dnsfilter::match: the rules whose pattern is the (lower-cased) hostname;
\* a hostname that still carries the root dot matches nothing
filter_match(hostname) ==
    LET Hit(r) == ~hostname.dot /\ r.pattern = ToLowerName(hostname.labels)
    IN  Filter(RuleTable, Hit)

\* dnsfilter::get_effective_rules: an exception wins, then an adblock-style
\* rule, otherwise all hosts-style rules
get_effective_rules(rules) ==
    LET IsExc(r) == r.exception
        IsAdblock(r) == ~r.exception /\ r.ip = Nullopt
        IsHosts(r) == ~r.exception /\ r.ip # Nullopt
        exc == Filter(rules, IsExc)
        adb == Filter(rules, IsAdblock)
    IN  IF Len(exc) > 0 THEN <<exc[1]>>
        ELSE IF Len(adb) > 0 THEN <<adb[1]>>
        ELSE Filter(rules, IsHosts)

-----------------------------------------------------------------------------
(* Processed events *)

NewEvent ==
    [domain |-> Nullopt, type |-> "", status |-> "", answer |-> <<>>,
     original_answer |-> <<>>, upstream_id |-> Nullopt, error |-> <<>>,
     rules |-> <<>>, filter_list_ids |-> <<>>, whitelist |-> FALSE,
     cache_hit |-> FALSE]

\* "<Type>, <RDFs>" per record
rr_list_to_string(rr_list) ==
    [i \in 1..Len(rr_list) |-> <<rr_list[i].type, rr_list[i].rdfs>>]

\* the reverse loop of event_append_rules over additional_rules[1..n]
RECURSIVE AppendRulesFrom(_, _, _)
AppendRulesFrom(event, additional_rules, n) ==
    IF n = 0 THEN event
    ELSE LET rule == additional_rules[n]
             next == IF Contains(event.rules, rule.text)
                     THEN event
                     ELSE [event EXCEPT
                             !.rules = <<rule.text>> \o @,
                             !.filter_list_ids = <<rule.filter_id>> \o @]
         IN  AppendRulesFrom(next, additional_rules, n - 1)

\* variant: the whitelist flag of the event is left as it was
event_append_rules_keeping_flag(event, additional_rules) ==
    IF additional_rules = <<>> THEN event
    ELSE AppendRulesFrom(event, additional_rules, Len(additional_rules))

event_append_rules(event, additional_rules) ==
    IF additional_rules = <<>> THEN event
    ELSE [AppendRulesFrom(event, additional_rules, Len(additional_rules))
            EXCEPT !.whitelist = additional_rules[1].exception]

\* variant: the event finalized without its error string
finalize_processed_event_without_error(event, req, resp, original_response, upstream_id, error) ==
    [event EXCEPT
        !.type = IF req # NoPkt THEN req.question[1].type ELSE "",
        !.status = IF resp # NoPkt THEN resp.rcode ELSE "",
        !.answer = IF resp # NoPkt THEN rr_list_to_string(resp.answer) ELSE <<>>,
        !.original_answer = IF original_response # NoPkt
                            THEN rr_list_to_string(original_response.answer)
                            ELSE <<>>,
        !.upstream_id = upstream_id]

\* the event as finalize_processed_event hands it to on_request_processed
finalize_processed_event(event, req, resp, original_response, upstream_id, error) ==
    [event EXCEPT
        !.type = IF req # NoPkt THEN req.question[1].type ELSE "",
        !.status = IF resp # NoPkt THEN resp.rcode ELSE "",
        !.answer = IF resp # NoPkt THEN rr_list_to_string(resp.answer) ELSE <<>>,
        !.original_answer = IF original_response # NoPkt
                            THEN rr_list_to_string(original_response.answer)
                            ELSE <<>>,
        !.upstream_id = upstream_id,
        !.error = IF error # Nullopt THEN error[1] ELSE <<>>]

-----------------------------------------------------------------------------
(* Response cache: ag::lru_cache, a list of entries, most recently used     *)
(* first.                                                                   *)

CacheIndex(cache, key) ==
    IF \E i \in 1..Len(cache) : cache[i].key = key
    THEN CHOOSE i \in 1..Len(cache) : cache[i].key = key
    ELSE 0

RemoveAt(s, i) == SubSeq(s, 1, i - 1) \o SubSeq(s, i + 1, Len(s))

\* lru_cache::get: the entry found becomes the most recently used one
lru_get(cache, key) ==
    LET i == CacheIndex(cache, key)
    IN  IF i = 0 THEN cache ELSE <<cache[i]>> \o RemoveAt(cache, i)

\* variant: the entry stays the most recently used one
lru_keep_mru(cache, key) == cache

\* lines 762-764, 791: cache.make_lru, the expired entry becomes the least
\* recently used one
lru_make_lru(cache, key) ==
    LET i == CacheIndex(cache, key)
    IN  IF i = 0 THEN cache ELSE RemoveAt(cache, i) \o <<cache[i]>>

\* lru_cache::insert: replace or add as most recently used, evict beyond capacity
lru_insert(cache, capacity, key, val) ==
    LET i == CacheIndex(cache, key)
        rest == IF i = 0 THEN cache ELSE RemoveAt(cache, i)
        all == <<[key |-> key, val |-> val]>> \o rest
    IN  IF Len(all) > capacity THEN SubSeq(all, 1, capacity) ELSE all

lru_erase(cache, key) ==
    LET i == CacheIndex(cache, key)
    IN  IF i = 0 THEN cache ELSE RemoveAt(cache, i)

\* variant: only the EDNS data counts as an extension
has_edns_data(pkt) == pkt.edns_data

\* lines 754-758: EDNS data, extended rcode or unassigned flags
has_unsupported_extensions(pkt) ==
    pkt.edns_data \/ pkt.edns_extended_rcode # 0 \/ pkt.edns_unassigned # 0

\* variant: the duration truncated to whole seconds
FloorSeconds(d) == d \div TicksPerSec

\* ceil<seconds> of a duration given in ticks
CeilSeconds(d) == -((-d) \div TicksPerSec)

\* variant: the records keep the TTLs they were stored with
KeepTtls(rr_list, ttl) == rr_list

SetTtls(rr_list, ttl) == [i \in 1..Len(rr_list) |-> [rr_list[i] EXCEPT !.ttl = ttl]]

NoCacheResult == [response |-> NoPkt, upstream_id |-> Nullopt, expired |-> FALSE]

\* variant: the cached response returned with the id it was stored with
PatchCachedResponseKeepingId(template, request, ttl) ==
    [template EXCEPT
        !.edns_udp_size = IF ldns_pkt_edns(template) THEN UDP_RECV_BUF_SIZE ELSE @,
        !.question = request.question,
        !.answer = SetTtls(@, ttl),
        !.authority = SetTtls(@, ttl),
        !.additional = SetTtls(@, ttl)]

\* the response patched for the live request (lines 802-824)
PatchCachedResponse(template, request, ttl) ==
    [template EXCEPT
        !.id = request.id,
        !.edns_udp_size = IF ldns_pkt_edns(template) THEN UDP_RECV_BUF_SIZE ELSE @,
        !.question = request.question,
        !.answer = SetTtls(@, ttl),
        !.authority = SetTtls(@, ttl),
        !.additional = SetTtls(@, ttl)]

\* result and new cache of create_response_from_cache at time t
create_response_from_cache(cache, s, key, request, t) ==
    IF s.dns_cache_size = 0 THEN [r |-> NoCacheResult, cache |-> cache]
    ELSE IF has_unsupported_extensions(request) THEN [r |-> NoCacheResult, cache |-> cache]
    ELSE IF CacheIndex(cache, key) = 0 THEN [r |-> NoCacheResult, cache |-> cache]
    ELSE LET got == lru_get(cache, key)
             acc == got[1].val
             cached_response_ttl == CeilSeconds(acc.expires_at - t)
             expired == cached_response_ttl <= 0
             ttl == IF expired THEN 1 ELSE cached_response_ttl
         IN  [r |-> [response |-> PatchCachedResponse(acc.response, request, ttl),
                     upstream_id |-> acc.upstream_id,
                     expired |-> expired],
              cache |-> IF expired THEN lru_make_lru(got, key) ELSE got]

\* the sentinel of compute_min_rr_ttl; the largest integer of TLC stands
\* for the largest uint32_t, no TTL of the model comes near it
UINT32_MAX == 2147483647

RECURSIVE MinTtl(_, _)
MinTtl(rr_list, acc) ==
    IF rr_list = <<>> THEN acc
    ELSE MinTtl(Tail(rr_list), Min2(acc, Head(rr_list).ttl))

compute_min_rr_ttl(pkt) ==
    LET m == MinTtl(pkt.authority, MinTtl(pkt.additional, MinTtl(pkt.answer, UINT32_MAX)))
    IN  IF m = UINT32_MAX THEN 0 ELSE m

\* the cache after put_response_into_cache at time t
put_response_into_cache(cache, s, key, response, upstream_id, t) ==
    IF s.dns_cache_size = 0 THEN cache
    ELSE IF \/ response.tc
            \/ Len(response.question) # 1
            \/ response.rcode # "NOERROR"
            \/ has_unsupported_extensions(response)
    THEN cache
    ELSE LET type == response.question[1].type
             found == \E i \in 1..Len(response.answer) : response.answer[i].type = type
             stripped == [response EXCEPT !.question = <<>>, !.aa = FALSE]
             min_rr_ttl == compute_min_rr_ttl(stripped)
         IN  IF type \in {"A", "AAAA"} /\ ~found THEN cache
             ELSE IF min_rr_ttl = 0 THEN cache
             ELSE lru_insert(cache, s.dns_cache_size, key,
                             [response |-> stripped,
                              expires_at |-> t + min_rr_ttl * TicksPerSec,
                              upstream_id |-> upstream_id])

-----------------------------------------------------------------------------
(* Upstreams.  An upstream is an external server: an exchange ends with a   *)
(* response, with a timeout or with another error.                          *)

TIMEOUT_STR == "Request timed out"
OTHER_ERROR_STR == "Connection refused"

RecordData(type) ==
    CASE type = "A" -> "1.1.1.1"
      [] type = "AAAA" -> "2001:db8::1"
      [] OTHER -> "text"

ResponseBase(req) ==
    [ldns_pkt_new EXCEPT
        !.id = req.id, !.qr = TRUE, !.rd = req.rd, !.ra = TRUE, !.cd = req.cd,
        !.question = req.question]

Answered(req, ttl) ==
    LET q == req.question[1]
    IN  [ResponseBase(req) EXCEPT
            !.answer = <<RR(q.owner, q.type, "IN", ttl, <<RecordData(q.type)>>)>>]

\* the responses of one kind an upstream may give to req
ResponsesOfKind(req, kind) ==
    LET q == req.question[1]
    IN  CASE kind = "answered" -> { Answered(req, ttl) : ttl \in 1..MaxTtl }
          [] kind = "shortlived" -> { Answered(req, 1) }
          [] kind = "authoritative" -> { [Answered(req, MaxTtl) EXCEPT !.aa = TRUE] }
          [] kind = "cname" ->
                { [ResponseBase(req) EXCEPT
                     !.answer = << RR(q.owner, "CNAME", "IN", 1, <<(<<"tracker", "example">>)>>),
                                   RR(<<"tracker", "example">>, q.type, "IN", 1,
                                      <<RecordData(q.type)>>) >>] }
          [] kind = "chain" ->
                { [ResponseBase(req) EXCEPT
                     !.answer = << RR(q.owner, "CNAME", "IN", 1, <<(<<"edge", "example">>)>>),
                                   RR(<<"edge", "example">>, "TXT", "IN", 1, <<"text">>),
                                   RR(<<"edge", "example">>, "A", "IN", 1, <<"1.1.1.1">>),
                                   RR(<<"edge", "example">>, "A", "IN", 1, <<"6.6.6.6">>),
                                   RR(<<"edge", "example">>, "CNAME", "IN", 1,
                                      <<(<<"tracker", "example">>)>>) >>] }
          [] kind = "aliased" ->
                { [ResponseBase(req) EXCEPT
                     !.answer = << RR(q.owner, "CNAME", "IN", 1, <<(<<"safe", "example">>)>>),
                                   RR(<<"safe", "example">>, "A", "IN", 1, <<"1.1.1.1">>) >>],
                  [ResponseBase(req) EXCEPT
                     !.answer = << RR(q.owner, "CNAME", "IN", 1, <<(<<"cdn", "example">>)>>),
                                   RR(<<"cdn", "example">>, "A", "IN", 1, <<"1.1.1.1">>) >>] }
          [] kind = "failedcname" ->
                { [ResponseBase(req) EXCEPT
                     !.rcode = "SERVFAIL",
                     !.answer = << RR(q.owner, "CNAME", "IN", 1,
                                      <<(<<"tracker", "example">>)>>) >>] }
          [] kind = "address" ->
                { [ResponseBase(req) EXCEPT
                     !.answer = << RR(q.owner, "A", "IN", 1, <<"6.6.6.6">>) >>] }
          [] kind = "nxdomain" -> { [ResponseBase(req) EXCEPT !.rcode = "NXDOMAIN"] }
          [] kind = "truncated" -> { [Answered(req, 1) EXCEPT !.tc = TRUE] }
          [] kind = "edns" ->
                { [Answered(req, 1) EXCEPT !.edns_data = TRUE],
                  [Answered(req, 1) EXCEPT !.edns_extended_rcode = 1],
                  [Answered(req, 1) EXCEPT !.edns_unassigned = 1] }
          [] kind = "noquestion" -> { [Answered(req, 1) EXCEPT !.question = <<>>] }
          [] kind = "zerottl" -> { Answered(req, 0), ResponseBase(req) }
          [] kind = "mixedttl" ->
                { [Answered(req, 1) EXCEPT
                     !.additional = << RR(q.owner, "TXT", "IN", MaxTtl, <<"text">>) >>] }
          [] kind = "nodata" ->
                { [ResponseBase(req) EXCEPT
                     !.authority = << RR(q.owner, "NS", "IN", 1, <<"ns">>) >>] }

UpstreamResponses(req, kinds) == UNION { ResponsesOfKind(req, kind) : kind \in kinds }

ExchangeOk(resp) == [error |-> Nullopt, packet |-> resp]
ExchangeFailed(reason) == [error |-> Some(reason), packet |-> NoPkt]

\* the results upstream::exchange(req) may have in the network net
ExchangeResults(req, net) ==
    { ExchangeOk(resp) : resp \in UpstreamResponses(req, net.kinds) }
    \cup { ExchangeFailed(reason) : reason \in net.errors }

\* upstream::adjust_rtt: moving average of the round trip time
adjust_rtt(old, elapsed) == (old + elapsed) \div 2

\* variant: the group left in configuration order
ConfigurationOrder(group, rttOf) == {group}

\* the rtt each upstream of a group has when the group is sorted
Snapshot(group, rttOf) == [u \in {group[k] : k \in 1..Len(group)} |-> rttOf[u]]

\* the permutations of a group that std::sort by rtt may produce
SortedByRtt(group, rttOf) ==
    LET n == Len(group)
    IN  { p \in [1..n -> {group[k] : k \in 1..n}] :
            /\ \A a, b \in 1..n : a # b => p[a] # p[b]
            /\ \A a, b \in 1..n : a < b => rttOf[p[a]] <= rttOf[p[b]] }

-----------------------------------------------------------------------------
(* DNS64 *)

PREFIX_WKP == [text |-> "64:ff9b::", len |-> 12]

\* a prefix of 96 bits that is not the well-known one, and a prefix whose
\* length RFC 6052 does not allow
PREFIX_NET == [text |-> "2001:db8:64::", len |-> 12]
PREFIX_ODD == [text |-> "2001:db8::", len |-> 3]

\* dns64::synthesize_ipv4_embedded_ipv6_address (RFC 6052)
synthesize_ipv4_embedded_ipv6_address(pref, ip4) ==
    IF pref.len \notin {4, 5, 6, 7, 8, 12} \/ ~is_valid_ip4(ip4)
    THEN [ip6 |-> "", err |-> Some("invalid prefix or address")]
    ELSE [ip6 |-> CASE pref = PREFIX_WKP /\ ip4 = "1.1.1.1" -> "64:ff9b::101:101"
                    [] pref = PREFIX_WKP /\ ip4 = "6.6.6.6" -> "64:ff9b::606:606"
                    [] pref = PREFIX_WKP -> "64:ff9b::a00:1"
                    [] ip4 = "1.1.1.1" -> "2001:db8:64::101:101"
                    [] ip4 = "6.6.6.6" -> "2001:db8:64::606:606"
                    [] OTHER -> "2001:db8:64::a00:1",
          err |-> Nullopt]

\* variant: the first prefix only is tried
SynthesizeForFirstPrefix(a_rr, prefixes) ==
    IF prefixes = <<>> THEN <<>>
    ELSE LET res == synthesize_ipv4_embedded_ipv6_address(Head(prefixes), a_rr.rdfs[1])
         IN  IF res.err # Nullopt THEN <<>>
             ELSE <<[a_rr EXCEPT !.type = "AAAA", !.rdfs = <<res.ip6>>]>>

RECURSIVE SynthesizeForPrefixes(_, _)
SynthesizeForPrefixes(a_rr, prefixes) ==
    IF prefixes = <<>> THEN <<>>
    ELSE LET res == synthesize_ipv4_embedded_ipv6_address(Head(prefixes), a_rr.rdfs[1])
         IN  (IF res.err # Nullopt THEN <<>>
              ELSE <<[a_rr EXCEPT !.type = "AAAA", !.rdfs = <<res.ip6>>]>>)
             \o SynthesizeForPrefixes(a_rr, Tail(prefixes))

RECURSIVE SynthesizeList(_, _)
SynthesizeList(answer, prefixes) ==
    IF answer = <<>> THEN <<>>
    ELSE LET a_rr == Head(answer)
         IN  (IF a_rr.type # "A" THEN <<a_rr>>
              ELSE IF a_rr.rdfs = <<>> THEN <<>>
              ELSE SynthesizeForPrefixes(a_rr, prefixes))
             \o SynthesizeList(Tail(answer), prefixes)

CountType(rr_list, type) ==
    Cardinality({i \in 1..Len(rr_list) : rr_list[i].type = type})

\* the A query of try_dns64_aaaa_synthesis
Dns64RequestA(req, id) ==
    [ldns_pkt_new EXCEPT
        !.id = id, !.rd = req.rd, !.cd = req.cd,
        !.question = <<Question(req.question[1].owner, "A", "IN")>>]

\* the part of try_dns64_aaaa_synthesis after the exchange of the A query:
\* NoPkt when nothing was synthesized
Dns64Synthesize(req, result_a, prefixes) ==
    IF result_a.error # Nullopt THEN NoPkt
    ELSE IF Len(result_a.packet.answer) = 0 THEN NoPkt
    ELSE LET response_a == result_a.packet
             rr_list == SynthesizeList(response_a.answer, prefixes)
             aaaa_rr_count ==
                 CountType(rr_list, "AAAA") - CountType(response_a.answer, "AAAA")
         IN  IF aaaa_rr_count = 0 THEN NoPkt
             ELSE [ldns_pkt_new EXCEPT
                      !.id = req.id, !.rd = req.rd,
                      !.ra = response_a.ra, !.cd = response_a.cd, !.qr = TRUE,
                      !.question = req.question,
                      !.answer = rr_list]

-----------------------------------------------------------------------------
(* apply_filter and the post-filter loop *)

ldns_dname_str_absolute(str) == str.dot

\* std::string_view::remove_suffix(1) for an absolute name
DropTrailingDot(str) == IF ldns_dname_str_absolute(str) THEN [str EXCEPT !.dot = FALSE] ELSE str

\* utils::addr_to_str: the text of an address, used as a hostname
addr_to_str(addr) == [labels |-> <<addr>>, dot |-> FALSE]

\* variant: apply_filter never sets *out_rcode
BlockingVerdictWithoutRcode(resp, req, original_response, ev, effective_rules_, fire_event) ==
    LET evf == finalize_processed_event(ev, req, resp, original_response, Nullopt, Nullopt)
    IN  [raw |-> Some(transform_response_to_raw_data(resp)),
         event |-> IF fire_event THEN evf ELSE ev,
         rules |-> effective_rules_,
         rcode |-> "NOERROR",
         fired |-> IF fire_event THEN <<evf>> ELSE <<>>]

\* lines 1124-1141 of apply_filter: the blocking response is built and reported
BlockingVerdict(resp, req, original_response, ev, effective_rules_, fire_event) ==
    LET evf == finalize_processed_event(ev, req, resp, original_response, Nullopt, Nullopt)
    IN  [raw |-> Some(transform_response_to_raw_data(resp)),
         event |-> IF fire_event THEN evf ELSE ev,
         rules |-> effective_rules_,
         rcode |-> resp.rcode,
         fired |-> IF fire_event THEN <<evf>> ELSE <<>>]

\* variant: apply_filter blocks whenever a rule matches, exception or not
FilterVerdictIgnoringException(effective_rules_, req, original_response, ev, s, fire_event) ==
    IF effective_rules_ = <<>>
    THEN [raw |-> Nullopt, event |-> ev, rules |-> effective_rules_,
          rcode |-> "NOERROR", fired |-> <<>>]
    ELSE BlockingVerdict(create_blocking_response(req, s, effective_rules_), req,
                         original_response, ev, effective_rules_, fire_event)

\* lines 1112-1122 of apply_filter, from the effective rules on
FilterVerdict(effective_rules_, req, original_response, ev, s, fire_event) ==
    IF effective_rules_ = <<>> \/ effective_rules_[1].exception
    THEN [raw |-> Nullopt, event |-> ev, rules |-> effective_rules_,
          rcode |-> "NOERROR", fired |-> <<>>]
    ELSE BlockingVerdict(create_blocking_response(req, s, effective_rules_), req,
                         original_response, ev, effective_rules_, fire_event)

\* lines 1119-1120 of apply_filter
AppendedVerdict(effective_rules_, req, original_response, ev, s, fire_event) ==
    FilterVerdict(effective_rules_, req, original_response,
                  event_append_rules(ev, effective_rules_), s, fire_event)

\* raw: the blocking response if any; event, rules: the updated event and
\* last_effective_rules; rcode: *out_rcode; fired: the events emitted
apply_filter(hostname, req, original_response, ev, last_effective_rules, s, fire_event) ==
    AppendedVerdict(get_effective_rules(filter_match(hostname) \o last_effective_rules),
                    req, original_response, ev, s, fire_event)

\* a verdict that leaves everything as it was
NoVerdict(ev, last_effective_rules) ==
    [raw |-> Nullopt, event |-> ev, rules |-> last_effective_rules,
     rcode |-> "NOERROR", fired |-> <<>>, matched |-> <<>>]

apply_cname_filter(cname_rr, req, resp, ev, last_effective_rules, s) ==
    IF cname_rr.rdfs = <<>>
    THEN NoVerdict(ev, last_effective_rules)
    ELSE LET cname == DropTrailingDot(ldns_rdf2str(cname_rr.rdfs[1]))
         IN  apply_filter(cname, req, resp, ev, last_effective_rules, s, TRUE)
                @@ [matched |-> <<cname>>]

apply_ip_filter(rr, req, resp, ev, last_effective_rules, s) ==
    IF rr.rdfs = <<>> \/ ~(is_valid_ip4(rr.rdfs[1]) \/ is_valid_ip6(rr.rdfs[1]))
    THEN NoVerdict(ev, last_effective_rules)
    ELSE LET addr_str == addr_to_str(rr.rdfs[1])
         IN  apply_filter(addr_str, req, resp, ev, last_effective_rules, s, TRUE)
                @@ [matched |-> <<addr_str>>]

\* lines 1019-1030: the filter applied to one RR of the answer section
FilterAnswerRR(rr, req, resp, ev, last_effective_rules, s) ==
    IF rr.type = "CNAME"
    THEN apply_cname_filter(rr, req, resp, ev, last_effective_rules, s)
    ELSE IF rr.type \in {"A", "AAAA"}
    THEN apply_ip_filter(rr, req, resp, ev, last_effective_rules, s)
    ELSE NoVerdict(ev, last_effective_rules)

RECURSIVE PostFilterFrom(_, _, _, _, _, _, _)

\* lines 1021-1029: return the blocking response, or go on with the next RR
PostFilterNext(i, v, req, resp, s, hosts) ==
    IF v.raw # Nullopt
    THEN [raw |-> v.raw, event |-> v.event, rules |-> v.rules,
          fired |-> v.fired, hosts |-> hosts \o v.matched]
    ELSE PostFilterFrom(i + 1, req, resp, v.event, v.rules, s, hosts \o v.matched)

\* the loop of lines 1017-1031 from answer RR i on; hosts: the hostnames matched
PostFilterFrom(i, req, resp, ev, last_effective_rules, s, hosts) ==
    IF i > Len(resp.answer)
    THEN [raw |-> Nullopt, event |-> ev, rules |-> last_effective_rules,
          fired |-> <<>>, hosts |-> hosts]
    ELSE PostFilterNext(i, FilterAnswerRR(resp.answer[i], req, resp, ev,
                                          last_effective_rules, s),
                        req, resp, s, hosts)

-----------------------------------------------------------------------------
(* State *)

VARIABLES
    settings,           \* dnsproxy_settings the forwarder was initialized with
    upstreams,          \* ids of the primary upstreams, in configuration order
    fallbacks,          \* ids of the fallback upstreams
    filter_handle,      \* whether the handle of the filter is non-null
    init_call,          \* the init call made: its argument and what it returned
    rtt,                \* upstream id -> recorded round trip time
    dns64_prefixes,     \* the discovered DNS64 prefixes
    discovery,          \* the DNS64 discovery thread: the rounds it has left, and per
                        \* round made the results of the upstreams it tried
    response_cache,     \* the LRU cache, most recently used entry first
    async_reqs,         \* refresh tasks in flight
    refreshed,          \* the fingerprints whose refresh task was finalized
    deinit,             \* position of the deinit call: idle, waiting or done
    now,                \* steady clock, in ticks
    hm,                 \* locals of the handle_message call in progress
    ux,                 \* caller -> locals of its do_upstream_exchange call
    obs,                \* what the handle_message call in progress did so far
    inputs,             \* the messages clients send
    network,            \* the exchange results and durations the network exhibits
    threads             \* the threads seen at the level of their locks: where each
                        \* is, the locks it holds, the locals of its call

vars == <<settings, upstreams, fallbacks, filter_handle, init_call, rtt, dns64_prefixes, discovery,
          response_cache, async_reqs, refreshed, deinit, now, hm, ux, obs, inputs, network,
          threads>>

\* the refresh tasks and the teardown
taskVars == <<async_reqs, refreshed, deinit>>

\* what the steps of the request pipeline leave as it is: the configuration
\* and the lock-level view of the threads
cfgVars == <<settings, upstreams, fallbacks, filter_handle, init_call, inputs, network,
             threads>>

UpstreamIds == 1..3
Callers == {"client", "worker"}
MaxTries == 1
BlockedTtl == 3600

IdleFrame ==
    [pc |-> "idle", message |-> EmptyBuffer, request |-> NoPkt, req_holder |-> FALSE,
     domain |-> Nullopt, cache_key |-> <<>>, cached |-> NoCacheResult,
     effective_rules |-> <<>>, event |-> NewEvent, response |-> NoPkt,
     selected_upstream |-> Nullopt, err_str |-> Nullopt, ret |-> EmptyBuffer]

NoResult == [response |-> NoPkt, error |-> Nullopt, upstream |-> Nullopt]

IdleUx ==
    [pc |-> "idle", request |-> NoPkt, group |-> 0, sorted |-> <<>>, i |-> 0,
     snapshot |-> <<>>, cur_upstream |-> Nullopt, err_str |-> <<>>, result |-> ExchangeFailed(""),
     ret |-> NoResult, log |-> <<>>]

NewObs ==
    [emitted |-> <<>>, filter_log |-> <<>>, xlog |-> <<>>, path |-> "",
     lookups |-> 0, puts |-> 0, upstream_response |-> NoPkt,
     touched |-> <<>>, ranked |-> <<>>, aux |-> Nullopt]

-----------------------------------------------------------------------------
(* Inputs *)

RequestIds == {1, 2}

Query(id, name, type, edns_data) ==
    [ldns_pkt_new EXCEPT
        !.id = id, !.rd = TRUE, !.edns_data = edns_data,
        !.question = <<Question(name, type, "IN")>>]

Wire(queries) == { transform_response_to_raw_data(q) : q \in queries }

Malformed == [size |-> 5, pkt |-> NoPkt]

\* the canary domain in two spellings
CanaryWorkload ==
    Wire({ Query(1, <<"USE-APPLICATION-DNS", "net">>, "A", FALSE),
           Query(2, <<"use-application-dns", "net">>, "A", FALSE),
           Query(1, <<"use-application-dns", "net">>, "AAAA", FALSE),
           Query(1, <<"use-application-dns", "net">>, "TXT", FALSE) })

\* a domain with an exception rule
AllowedWorkload ==
    Wire({ Query(1, <<"white", "example">>, "A", FALSE),
           Query(2, <<"white", "example">>, "A", FALSE),
           Query(1, <<"white", "example">>, "A", TRUE),
           Query(1, <<"white", "example">>, "AAAA", FALSE) })

\* domains with blocking rules, and messages without a usable question
LocalWorkload ==
    Wire({ Query(1, name, type, FALSE) :
             name \in {<<"ads", "example">>, <<"hosts", "example">>},
             type \in {"A", "AAAA", "TXT"} })
    \cup Wire({ [ldns_pkt_new EXCEPT !.id = 1, !.rd = TRUE] })
    \cup { Malformed }

\* a domain no rule matches
FailoverWorkload ==
    Wire({ Query(1, <<"ok", "example">>, type, FALSE) : type \in {"A", "AAAA"} })

Workloads == { CanaryWorkload, AllowedWorkload, LocalWorkload }

\* upstreams that answer with the records asked for
Plain == [errors |-> {}, kinds |-> {"answered", "authoritative"}, latencies |-> {1}]
\* upstreams that answer with something else
Adverse == [errors |-> {}, kinds |-> {"cname", "address", "nxdomain", "nodata"},
            latencies |-> {1}]
\* upstreams that may fail
Flaky == [errors |-> {TIMEOUT_STR, OTHER_ERROR_STR}, kinds |-> {"answered"}, latencies |-> {1}]

\* the clients and the network the forwarder is deployed with
Environments ==
    { [inputs |-> w, network |-> Plain] : w \in Workloads }
    \cup { [inputs |-> FailoverWorkload, network |-> n] : n \in {Adverse, Flaky} }

SettingsOf(size, optimistic, block6, mode, dns64) ==
    [dns_cache_size |-> size, optimistic_cache |-> optimistic, block_ipv6 |-> block6,
     blocking_mode |-> mode, blocked_response_ttl_secs |-> BlockedTtl,
     custom_blocking_ipv4 |-> "", custom_blocking_ipv6 |-> "",
     dns64 |-> IF dns64 THEN Some([max_tries |-> MaxTries, upstreams |-> <<1>>])
                        ELSE Nullopt]

PipelineSettings ==
    { SettingsOf(size, optimistic, block6, mode, dns64) :
        size \in 0..MaxCacheSize, optimistic \in BOOLEAN, block6 \in BOOLEAN,
        mode \in {"DEFAULT", "UNSPECIFIED_ADDRESS"}, dns64 \in BOOLEAN }

\* line 91: the settings pointer of a forwarder that is not initialized
NoSettings == [null |-> TRUE]

\* the threads that call handle_message, the thread of the work queue that
\* runs async_request_worker, the loop thread that runs the finalizers, the
\* DNS64 discovery thread, and the thread that calls deinit
ClientThreads == {"client1", "client2"}
Threads == ClientThreads \cup {"worker", "loop", "discovery", "deinit"}

\* locals of a handle_message call seen at the level of its locks
IdleCall ==
    [request |-> NoPkt, cache_key |-> <<>>, cached |-> NoCacheResult, moved |-> FALSE,
     response |-> NoPkt, upstream_id |-> Nullopt]

\* no thread has started: at is the position of each thread, held the locks
\* it holds, call the locals of each handle_message call, work the task the
\* worker or the finalizer is on, found the prefixes the discovery thread is
\* about to store, cancelled the tasks whose work deinit cancelled
IdleThreads ==
    [at |-> [t \in Threads |-> "idle"],
     held |-> [t \in Threads |-> {}],
     call |-> [t \in ClientThreads |-> IdleCall],
     work |-> [t \in {"worker", "loop"} |-> Nullopt],
     ret |-> [response |-> NoPkt, error |-> Nullopt, upstream |-> Nullopt],
     found |-> <<>>,
     cancelled |-> {}]

\* lines 650-662: the discovery thread that init starts when DNS64 is set
DiscoveryThread(s) ==
    [left |-> IF s.dns64 # Nullopt THEN s.dns64[1].max_tries ELSE 0, tried |-> <<>>]

\* the state after a successful init, before the first message
InitForwarder ==
    /\ filter_handle = TRUE
    /\ init_call = Some([settings |-> settings, ret |-> [ok |-> TRUE, err |-> Nullopt]])
    /\ dns64_prefixes = <<>>
    /\ discovery = DiscoveryThread(settings)
    /\ response_cache = <<>>
    /\ async_reqs = {}
    /\ refreshed = {}
    /\ deinit = "idle"
    /\ now = 0
    /\ hm = IdleFrame
    /\ ux = [c \in Callers |-> IdleUx]
    /\ obs = NewObs
    /\ threads = IdleThreads

Init ==
    /\ settings \in { s \in PipelineSettings :
                        /\ s.optimistic_cache => s.dns_cache_size > 0
                        /\ s.dns_cache_size > 0 => s.blocking_mode = "DEFAULT"
                        /\ s.dns64 # Nullopt => ~s.block_ipv6 }
    /\ upstreams = <<1>>
    /\ fallbacks = <<2>>
    /\ rtt = [u \in UpstreamIds |-> 0]
    /\ \E e \in Environments : inputs = e.inputs /\ network = e.network
    /\ InitForwarder

-----------------------------------------------------------------------------
(* do_upstream_exchange, called by c *)

Group(g) == IF g = 1 THEN upstreams ELSE fallbacks

\* lines 1144-1147: entry
CallUx(request) == [IdleUx EXCEPT !.pc = "sort", !.request = request, !.group = 1]

\* lines 1148-1156: snapshot of the next group, sorted by rtt
UxSort(c) ==
    /\ ux[c].pc = "sort"
    /\ ux[c].group <= 2
    /\ \E sorted_upstreams \in SortedByRtt(Group(ux[c].group), rtt) :
          ux' = [ux EXCEPT ![c] =
                    IF Len(sorted_upstreams) = 0
                    THEN [@ EXCEPT !.group = @ + 1]
                    ELSE [@ EXCEPT !.sorted = sorted_upstreams, !.snapshot = Snapshot(sorted_upstreams, rtt),
                                   !.i = 1, !.pc = "exchange"]]
    /\ UNCHANGED <<cfgVars, rtt, dns64_prefixes, discovery, response_cache, taskVars,
                   now, hm, obs>>

\* the continuation of the loops after a failed upstream
Advance(u) ==
    IF u.i < Len(u.sorted)
    THEN [u EXCEPT !.i = @ + 1, !.pc = "exchange"]
    ELSE [u EXCEPT !.group = @ + 1, !.sorted = <<>>, !.snapshot = <<>>, !.i = 0,
                   !.pc = "sort"]

\* the log of a call with one more exchange: the upstream, its group, the rtt
\* it had when its group was sorted, whether it is the retry, and the error
Logged(log, upstream, result, retry, group, snapshot) ==
    log \o <<[upstream |-> upstream, error |-> result.error, retry |-> retry,
              group |-> group, rtt |-> snapshot[upstream]]>>

\* lines 1158-1181: the first exchange with the current upstream
UxExchange(c) ==
    /\ ux[c].pc = "exchange"
    /\ \E result \in ExchangeResults(ux[c].request, network), elapsed \in network.latencies :
          LET u == ux[c]
              cur_upstream == u.sorted[u.i]
              u1 == [u EXCEPT !.cur_upstream = Some(cur_upstream), !.result = result,
                              !.log = Logged(@, cur_upstream, result, FALSE, u.group,
                                             u.snapshot)]
          IN  /\ rtt' = [rtt EXCEPT ![cur_upstream] = adjust_rtt(@, elapsed)]
              /\ ux' = [ux EXCEPT ![c] =
                          IF result.error = Nullopt
                          THEN [u1 EXCEPT !.pc = "returned",
                                          !.ret = [response |-> result.packet,
                                                   error |-> Nullopt,
                                                   upstream |-> Some(cur_upstream)]]
                          ELSE IF result.error[1] # TIMEOUT_STR
                          THEN [u1 EXCEPT !.pc = "retry"]
                          ELSE Advance(u1)]
    /\ UNCHANGED <<cfgVars, dns64_prefixes, discovery, response_cache, taskVars,
                   now, hm, obs>>

\* lines 1171-1177: the retry after an error that is not a timeout
UxRetry(c) ==
    /\ ux[c].pc = "retry"
    /\ \E retry_result \in ExchangeResults(ux[c].request, network) :
          LET u == ux[c]
              cur_upstream == u.cur_upstream[1]
              u1 == [u EXCEPT !.log = Logged(@, cur_upstream, retry_result, TRUE, u.group,
                                             u.snapshot)]
          IN  ux' = [ux EXCEPT ![c] =
                        IF retry_result.error = Nullopt
                        THEN [u1 EXCEPT !.pc = "returned",
                                        !.ret = [response |-> retry_result.packet,
                                                 error |-> Nullopt,
                                                 upstream |-> Some(cur_upstream)]]
                        ELSE Advance([u1 EXCEPT !.err_str =
                                        <<"Upstream exchange failed", cur_upstream,
                                          u.result.error[1], retry_result.error[1]>>])]
    /\ UNCHANGED <<cfgVars, rtt, dns64_prefixes, discovery, response_cache, taskVars,
                   now, hm, obs>>

\* line 1184: every group is exhausted
UxExhausted(c) ==
    /\ ux[c].pc = "sort"
    /\ ux[c].group > 2
    /\ LET u == ux[c]
       IN  ux' = [ux EXCEPT ![c] = [u EXCEPT !.pc = "returned",
                                             !.ret = [response |-> NoPkt,
                                                      error |-> Some(u.err_str),
                                                      upstream |-> u.cur_upstream]]]
    /\ UNCHANGED <<cfgVars, rtt, dns64_prefixes, discovery, response_cache, taskVars,
                   now, hm, obs>>

-----------------------------------------------------------------------------
(* handle_message *)

Emit(o, events) == [o EXCEPT !.emitted = @ \o events]

Type == hm.request.question[1].type

\* lines 905-919: parse
HandleMessage(message) ==
    /\ hm.pc = "idle"
    /\ LET parsed == ldns_wire2pkt(message)
           err == <<"Failed to parse payload", parsed.status>>
           ev == finalize_processed_event(NewEvent, NoPkt, NoPkt, NoPkt, Nullopt, Some(err))
       IN  IF parsed.status # "LDNS_STATUS_OK"
           THEN /\ hm' = [IdleFrame EXCEPT !.pc = "done", !.message = message,
                                           !.event = ev, !.ret = EmptyBuffer]
                /\ obs' = [Emit(NewObs, <<ev>>) EXCEPT !.path = "parse_failure"]
           ELSE /\ hm' = [IdleFrame EXCEPT !.pc = "validate", !.message = message,
                                           !.request = parsed.pkt, !.req_holder = TRUE]
                /\ obs' = NewObs
    /\ UNCHANGED <<cfgVars, rtt, dns64_prefixes, discovery, response_cache, taskVars, now, ux>>

\* lines 922-934: the question
ValidateQuestion ==
    /\ hm.pc = "validate"
    /\ IF hm.request.question = <<>>
       THEN LET err == <<"Message has no question section">>
                resp == create_servfail_response(hm.request)
                ev == finalize_processed_event(hm.event, NoPkt, resp, NoPkt, Nullopt, Some(err))
            IN  /\ hm' = [hm EXCEPT !.pc = "done", !.response = resp, !.event = ev,
                                    !.ret = transform_response_to_raw_data(resp)]
                /\ obs' = [Emit(obs, <<ev>>) EXCEPT !.path = "no_question"]
       ELSE LET domain == ldns_rdf2str(hm.request.question[1].owner)
            IN  /\ hm' = [hm EXCEPT !.pc = "cache_lookup", !.domain = Some(domain),
                                    !.event.domain = Some(domain)]
                /\ obs' = obs
    /\ UNCHANGED <<cfgVars, rtt, dns64_prefixes, discovery, response_cache, taskVars, now, ux>>

\* lines 936-937: the cache key and the lookup
CacheLookup ==
    /\ hm.pc = "cache_lookup"
    /\ LET key == get_cache_key(hm.request)
           res == create_response_from_cache(response_cache, settings, key, hm.request, now)
       IN  /\ hm' = [hm EXCEPT !.pc = "cached", !.cache_key = key, !.cached = res.r]
           /\ response_cache' = res.cache
           /\ obs' = [obs EXCEPT !.lookups = @ + 1]
    /\ UNCHANGED <<cfgVars, rtt, dns64_prefixes, discovery, taskVars, now, ux>>

\* variant: a cached response is used whether or not its time is over
ServedWheneverCached == hm.cached.response # NoPkt

\* variant: a cached response is used in optimistic mode only
ServedWhenOptimistic == hm.cached.response # NoPkt /\ settings.optimistic_cache

\* lines 939-943: the cached response is used
Served == hm.cached.response # NoPkt /\ ~(hm.cached.expired /\ ~settings.optimistic_cache)

\* variant: a task is queued whether or not the key has one
EmplacedAlways(tasks, key) == TRUE

\* lines 945-948: async_reqs.emplace inserts when the key has no task
Emplaced(tasks, key) == ~\E task \in tasks : task.cache_key = key

\* lines 939-961: answer from the cache, scheduling a refresh for an expired entry
CacheHit ==
    /\ hm.pc = "cached"
    /\ Served
    /\ LET emplaced == hm.cached.expired /\ Emplaced(async_reqs, hm.cache_key)
           raw == transform_response_to_raw_data(hm.cached.response)
           ev == finalize_processed_event([hm.event EXCEPT !.cache_hit = TRUE], hm.request,
                                          hm.cached.response, NoPkt,
                                          hm.cached.upstream_id, Nullopt)
       IN  /\ async_reqs' = IF emplaced
                            THEN async_reqs \cup {[cache_key |-> hm.cache_key,
                                                   request |-> hm.request,
                                                   state |-> "queued"]}
                            ELSE async_reqs
           /\ hm' = [hm EXCEPT !.pc = "done", !.event = ev, !.ret = raw,
                               !.req_holder = IF emplaced THEN FALSE ELSE @]
           /\ obs' = [Emit(obs, <<ev>>) EXCEPT !.path = "cache_hit"]
    /\ UNCHANGED <<cfgVars, rtt, dns64_prefixes, discovery, response_cache, refreshed, deinit,
                   now, ux>>

\* lines 939-942, 963: no usable cached response
CacheMiss ==
    /\ hm.pc = "cached"
    /\ ~Served
    /\ hm' = [hm EXCEPT !.pc = "canary"]
    /\ UNCHANGED <<cfgVars, rtt, dns64_prefixes, discovery, response_cache, taskVars,
                   now, ux, obs>>

\* lines 967-968
IsCanary == Type \in {"A", "AAAA"} /\ hm.domain[1] = MOZILLA_DOH_HOST

\* lines 964-974: the Mozilla DoH canary domain
Canary ==
    /\ hm.pc = "canary"
    /\ IsCanary
    /\ LET resp == create_nxdomain_response(hm.request, settings)
           ev == finalize_processed_event(hm.event, hm.request, resp, NoPkt, Nullopt, Nullopt)
       IN  /\ hm' = [hm EXCEPT !.pc = "done", !.response = resp, !.event = ev,
                               !.ret = transform_response_to_raw_data(resp)]
           /\ obs' = [Emit(obs, <<ev>>) EXCEPT !.path = "canary"]
    /\ UNCHANGED <<cfgVars, rtt, dns64_prefixes, discovery, response_cache, taskVars, now, ux>>

\* lines 967-968, 976-982: any other name
NotCanary ==
    /\ hm.pc = "canary"
    /\ ~IsCanary
    /\ hm' = [hm EXCEPT !.pc = "filter"]
    /\ UNCHANGED <<cfgVars, rtt, dns64_prefixes, discovery, response_cache, taskVars,
                   now, ux, obs>>

\* lines 976-979
pure_domain == DropTrailingDot(hm.domain[1])

\* lines 987-994: the reply of the IPv6 blocking step, given the filter's verdict f
Ipv6BlockReply(f) ==
    /\ hm' = [hm EXCEPT
                 !.pc = "done", !.event = f.event, !.effective_rules = f.rules,
                 !.ret = IF f.raw = Nullopt \/ f.rcode = "NOERROR"
                         THEN transform_response_to_raw_data(
                                  create_soa_response(hm.request, settings,
                                                      SOA_RETRY_IPV6_BLOCK))
                         ELSE f.raw[1]]
    /\ obs' = [Emit(obs, f.fired) EXCEPT !.path = "ipv6_block",
                                         !.filter_log = @ \o <<pure_domain>>]

\* lines 985-995: IPv6 blocking
Ipv6Block ==
    /\ hm.pc = "filter"
    /\ settings.block_ipv6 /\ Type = "AAAA"
    /\ Ipv6BlockReply(apply_filter(pure_domain, hm.request, NoPkt, hm.event, <<>>,
                                   settings, FALSE))
    /\ UNCHANGED <<cfgVars, rtt, dns64_prefixes, discovery, response_cache, taskVars, now, ux>>

\* lines 998-1001: return the filter's blocking response, or call the dispatcher
PreFilterReply(f) ==
    IF f.raw # Nullopt
    THEN /\ hm' = [hm EXCEPT !.pc = "done", !.event = f.event,
                             !.effective_rules = f.rules, !.ret = f.raw[1]]
         /\ obs' = [Emit(obs, f.fired) EXCEPT !.path = "pre_filter_block",
                                              !.filter_log = @ \o <<pure_domain>>]
         /\ ux' = ux
    ELSE /\ hm' = [hm EXCEPT !.pc = "exchanging", !.event = f.event,
                             !.effective_rules = f.rules]
         /\ obs' = [obs EXCEPT !.filter_log = @ \o <<pure_domain>>]
         /\ ux' = [ux EXCEPT !["client"] = CallUx(hm.request)]

\* lines 997-1001: the filter applied to the queried name, then the dispatcher
PreFilter ==
    /\ hm.pc = "filter"
    /\ ~(settings.block_ipv6 /\ Type = "AAAA")
    /\ PreFilterReply(apply_filter(pure_domain, hm.request, NoPkt, hm.event, <<>>,
                                   settings, TRUE))
    /\ UNCHANGED <<cfgVars, rtt, dns64_prefixes, discovery, response_cache, taskVars, now>>

\* line 1001: do_upstream_exchange has returned to handle_message
Exchanged == hm.pc = "exchanging" /\ ux["client"].pc = "returned"

\* lines 1002-1010: no upstream answered
UpstreamFailure ==
    /\ Exchanged
    /\ ux["client"].ret.response = NoPkt
    /\ LET r == ux["client"].ret
           resp == create_servfail_response(hm.request)
           ev == finalize_processed_event(hm.event, hm.request, resp, NoPkt,
                                          r.upstream, r.error)
       IN  /\ hm' = [hm EXCEPT !.pc = "done", !.response = resp, !.event = ev,
                               !.selected_upstream = r.upstream, !.err_str = r.error,
                               !.ret = transform_response_to_raw_data(resp)]
           /\ obs' = [Emit(obs, <<ev>>) EXCEPT !.path = "upstream_failure",
                                               !.xlog = ux["client"].log]
    /\ ux' = [ux EXCEPT !["client"] = IdleUx]
    /\ UNCHANGED <<cfgVars, rtt, dns64_prefixes, discovery, response_cache, taskVars, now>>

\* variant: the outcome of the loop is used whatever the rcode is
PostFilterReplyAnyRcode(r, h, o, f) ==
    IF f.raw # Nullopt
    THEN /\ hm' = [h EXCEPT !.pc = "done", !.event = f.event,
                            !.effective_rules = f.rules, !.ret = f.raw[1]]
         /\ obs' = [Emit(o, f.fired) EXCEPT !.path = "post_filter_block",
                                            !.filter_log = @ \o f.hosts]
    ELSE /\ hm' = [h EXCEPT !.pc = IF r.response.rcode = "NOERROR" THEN "dns64" ELSE "finish",
                            !.event = f.event, !.effective_rules = f.rules]
         /\ obs' = [o EXCEPT !.filter_log = @ \o f.hosts]

\* lines 1012-1031: what handle_message does with the outcome f of the loop
PostFilterReply(r, h, o, f) ==
    IF r.response.rcode # "NOERROR"
    THEN /\ hm' = [h EXCEPT !.pc = "finish"]
         /\ obs' = o
    ELSE IF f.raw # Nullopt
    THEN /\ hm' = [h EXCEPT !.pc = "done", !.event = f.event,
                            !.effective_rules = f.rules, !.ret = f.raw[1]]
         /\ obs' = [Emit(o, f.fired) EXCEPT !.path = "post_filter_block",
                                            !.filter_log = @ \o f.hosts]
    ELSE /\ hm' = [h EXCEPT !.pc = "dns64", !.event = f.event,
                            !.effective_rules = f.rules]
         /\ obs' = [o EXCEPT !.filter_log = @ \o f.hosts]

\* lines 1012-1031: the filter applied to the CNAMEs and addresses of the answer
PostFilter ==
    /\ Exchanged
    /\ ux["client"].ret.response # NoPkt
    /\ LET r == ux["client"].ret
       IN  PostFilterReply(r,
               [hm EXCEPT !.response = r.response, !.selected_upstream = r.upstream,
                          !.err_str = r.error],
               [obs EXCEPT !.xlog = ux["client"].log, !.upstream_response = r.response],
               PostFilterFrom(1, hm.request, r.response, hm.event,
                              hm.effective_rules, settings, <<>>))
    /\ ux' = [ux EXCEPT !["client"] = IdleUx]
    /\ UNCHANGED <<cfgVars, rtt, dns64_prefixes, discovery, response_cache, taskVars, now>>

\* variant: the type of the question is not looked at
Dns64WantedForAnyType ==
    /\ settings.dns64 # Nullopt
    /\ CountType(hm.response.answer, "AAAA") = 0

\* lines 1034-1042
Dns64Wanted ==
    /\ settings.dns64 # Nullopt
    /\ Type = "AAAA"
    /\ CountType(hm.response.answer, "AAAA") = 0

\* lines 1034-1042 and 460-463: no synthesis is attempted
Dns64Skip ==
    /\ hm.pc = "dns64"
    /\ ~Dns64Wanted \/ dns64_prefixes = <<>>
    /\ hm' = [hm EXCEPT !.pc = "finish"]
    /\ UNCHANGED <<cfgVars, rtt, dns64_prefixes, discovery, response_cache, taskVars,
                   now, ux, obs>>

\* lines 1043-1046: try_dns64_aaaa_synthesis with the upstream that answered
Dns64Synthesis ==
    /\ hm.pc = "dns64"
    /\ Dns64Wanted /\ dns64_prefixes # <<>>
    /\ \E id \in RequestIds :
          \E result_a \in ExchangeResults(Dns64RequestA(hm.request, id), network) :
             LET synth_response == Dns64Synthesize(hm.request, result_a, dns64_prefixes)
             IN  /\ hm' = [hm EXCEPT !.pc = "finish",
                                     !.response = IF synth_response # NoPkt
                                                  THEN synth_response ELSE @]
                 /\ obs' = [obs EXCEPT !.xlog = Logged(@, hm.selected_upstream[1],
                                                       result_a, FALSE, 0, rtt),
                                        !.aux = Some(result_a)]
    /\ UNCHANGED <<cfgVars, rtt, dns64_prefixes, discovery, response_cache, taskVars, now, ux>>

\* lines 1051-1057: serialize, emit the event, insert into the cache
Finish ==
    /\ hm.pc = "finish"
    /\ LET raw == transform_response_to_raw_data(hm.response)
           ev == finalize_processed_event(hm.event, hm.request, hm.response, NoPkt,
                                          hm.selected_upstream, Nullopt)
       IN  /\ hm' = [hm EXCEPT !.pc = "done", !.event = ev, !.ret = raw]
           /\ response_cache' = put_response_into_cache(response_cache, settings,
                                    hm.cache_key, hm.response, hm.selected_upstream, now)
           /\ obs' = [Emit(obs, <<ev>>) EXCEPT !.path = "forwarded", !.puts = @ + 1]
    /\ UNCHANGED <<cfgVars, rtt, dns64_prefixes, discovery, taskVars, now, ux>>

\* handle_message has returned hm.ret to its caller
Return ==
    /\ hm.pc = "done"
    /\ hm' = IdleFrame
    /\ obs' = NewObs
    /\ UNCHANGED <<cfgVars, rtt, dns64_prefixes, discovery, response_cache, taskVars, now, ux>>

-----------------------------------------------------------------------------
(* Environment *)

\* the steady clock advances.  The clock is read by the cache lookup and by
\* the cache insertion only, and a lookup that misses or finds an expired
\* entry does so at any later time too, so time passing between calls covers
\* every timing the calls can observe
Tick ==
    /\ now < MaxTime
    /\ hm.pc = "idle"
    /\ now' = now + 1
    /\ UNCHANGED <<cfgVars, rtt, dns64_prefixes, discovery, response_cache, taskVars,
                   hm, ux, obs>>

\* dns64::discover_prefixes: the prefixes the network of the deployment lets
\* the discovery find
DiscoverablePrefixes ==
    IF "prefixes" \in DOMAIN network THEN network.prefixes ELSE { <<PREFIX_WKP>> }

\* lines 666-680: what one discovery upstream brings: it cannot be created or
\* the discovery fails, no prefix is found, or prefixes are found
DiscoveryOutcomes ==
    { [err |-> Some("failed"), result |-> <<>>], [err |-> Nullopt, result |-> <<>>] }
    \cup { [err |-> Nullopt, result |-> result] : result \in DiscoverablePrefixes }

\* variant: every upstream of a round is tried
TriedAll(uss, outcomes, k) ==
    [i \in 1..Len(uss) |-> [upstream |-> uss[i], outcome |-> outcomes[i]]]

\* lines 665-687: the upstreams a round tries from the k-th on, with what
\* they bring: the round ends at the first one that brings prefixes
RECURSIVE TriedFrom(_, _, _)
TriedFrom(uss, outcomes, k) ==
    IF k > Len(uss) THEN <<>>
    ELSE LET it == [upstream |-> uss[k], outcome |-> outcomes[k]]
         IN  IF outcomes[k].err = Nullopt /\ outcomes[k].result # <<>>
             THEN <<it>>
             ELSE <<it>> \o TriedFrom(uss, outcomes, k + 1)

\* lines 663-693: the thread after a round in which it tried the upstreams
\* round, and the prefixes after it
DiscoveryAfter(d, round, prefixes) ==
    LET last == round[Len(round)].outcome
    IN  IF round # <<>> /\ last.err = Nullopt /\ last.result # <<>>
        THEN [thread |-> [left |-> 0, tried |-> Append(d.tried, round)],
              prefixes |-> last.result]
        ELSE [thread |-> [left |-> d.left - 1, tried |-> Append(d.tried, round)],
              prefixes |-> prefixes]

\* lines 663-693: one round of the DNS64 prefix discovery thread
DiscoveryRound ==
    /\ discovery.left > 0
    /\ hm.pc = "idle"
    /\ \E outcomes \in [1..Len(settings.dns64[1].upstreams) -> DiscoveryOutcomes] :
          LET after == DiscoveryAfter(discovery,
                                      TriedFrom(settings.dns64[1].upstreams, outcomes, 1),
                                      dns64_prefixes)
          IN  /\ dns64_prefixes' = after.prefixes
              /\ discovery' = after.thread
    /\ UNCHANGED <<cfgVars, rtt, response_cache, taskVars, now, hm, ux, obs>>

Next ==
    \/ \E message \in inputs : HandleMessage(message)
    \/ ValidateQuestion
    \/ CacheLookup
    \/ CacheHit
    \/ CacheMiss
    \/ Canary
    \/ NotCanary
    \/ Ipv6Block
    \/ PreFilter
    \/ UxSort("client")
    \/ UxExchange("client")
    \/ UxRetry("client")
    \/ UxExhausted("client")
    \/ UpstreamFailure
    \/ PostFilter
    \/ Dns64Skip
    \/ Dns64Synthesis
    \/ Finish
    \/ Return
    \/ Tick
    \/ DiscoveryRound

Spec == Init /\ [][Next]_vars

-----------------------------------------------------------------------------
(* The dispatcher on its own: groups of one and of two upstreams,            *)
(* round trip times that differ and drift, calls of do_upstream_exchange    *)
(* one after another while other threads exchange with the same upstreams.  *)

MaxRtt == 2

Jittery == [errors |-> {TIMEOUT_STR, OTHER_ERROR_STR}, kinds |-> {"authoritative"},
            latencies |-> {1, 3}]

InitDispatch ==
    /\ settings = SettingsOf(0, FALSE, FALSE, "DEFAULT", FALSE)
    /\ \/ upstreams = <<1, 2>> /\ fallbacks = <<3>>
       \/ upstreams = <<1>> /\ fallbacks = <<2, 3>>
    /\ rtt \in [UpstreamIds -> {0, MaxRtt}]
    /\ inputs = Wire({ Query(1, <<"ok", "example">>, "A", FALSE) })
    /\ network = Jittery
    /\ InitForwarder

\* lines 1144-1147: a thread enters do_upstream_exchange
CallExchange ==
    /\ hm.pc = "idle"
    /\ ux["client"].pc = "idle"
    /\ \E message \in inputs : ux' = [ux EXCEPT !["client"] = CallUx(message.pkt)]
    /\ UNCHANGED <<cfgVars, rtt, dns64_prefixes, discovery, response_cache, taskVars,
                   now, hm, obs>>

\* lines 1164 and 1184: do_upstream_exchange returns to that thread
ReturnExchange ==
    /\ hm.pc = "idle"
    /\ ux["client"].pc = "returned"
    /\ ux' = [ux EXCEPT !["client"] = IdleUx]
    /\ UNCHANGED <<cfgVars, rtt, dns64_prefixes, discovery, response_cache, taskVars,
                   now, hm, obs>>

\* lines 1160-1163 run by another thread: the rtt of an upstream of the group
\* the call observed is looping over is adjusted (the loop reads no other rtt)
ConcurrentExchange ==
    /\ ux["client"].pc \in {"exchange", "retry"}
    /\ \E u \in DOMAIN ux["client"].snapshot, elapsed \in network.latencies :
          rtt' = [rtt EXCEPT ![u] = adjust_rtt(@, elapsed)]
    /\ UNCHANGED <<cfgVars, dns64_prefixes, discovery, response_cache, taskVars,
                   now, hm, ux, obs>>

NextDispatch ==
    \/ CallExchange
    \/ UxSort("client")
    \/ UxExchange("client")
    \/ UxRetry("client")
    \/ UxExhausted("client")
    \/ ReturnExchange
    \/ ConcurrentExchange

SpecDispatch == InitDispatch /\ [][NextDispatch]_vars

-----------------------------------------------------------------------------
(* Optimistic refresh and teardown: the refresh tasks handle_message queues *)
(* are run by a worker thread, finalized, and drained by deinit.            *)

\* a network in which answers expire soon, cannot be cached, or do not come
\* in time
Unsteady == [errors |-> {TIMEOUT_STR}, kinds |-> {"shortlived", "nxdomain"},
             latencies |-> {1}]

\* two questions, asked again and again
RefreshWorkload ==
    Wire({ Query(1, <<"ok", "example">>, "A", FALSE),
           Query(1, <<"ok", "example">>, "AAAA", FALSE) })

InitRefresh ==
    /\ settings = SettingsOf(MaxCacheSize + 1, TRUE, FALSE, "DEFAULT", FALSE)
    /\ upstreams = <<1>>
    /\ fallbacks = <<2>>
    /\ rtt = [u \in UpstreamIds |-> 0]
    /\ inputs = RefreshWorkload
    /\ network = Unsteady
    /\ InitForwarder

SetState(tasks, task, state) == (tasks \ {task}) \cup {[task EXCEPT !.state = state]}

\* lines 1187-1194: the thread pool starts a queued task
WorkerStart ==
    /\ ux["worker"].pc = "idle"
    /\ \E task \in async_reqs :
          /\ task.state = "queued"
          /\ async_reqs' = SetState(async_reqs, task, "running")
          /\ ux' = [ux EXCEPT !["worker"] = CallUx(task.request)]
    /\ UNCHANGED <<cfgVars, rtt, dns64_prefixes, discovery, response_cache, refreshed,
                   deinit, now, hm, obs>>

\* lines 1194-1203: the dispatcher has returned to async_request_worker
WorkerFinish ==
    /\ ux["worker"].pc = "returned"
    /\ \E task \in async_reqs :
          /\ task.state = "running"
          /\ LET r == ux["worker"].ret
             IN  IF r.response = NoPkt
                 THEN /\ response_cache' = lru_erase(response_cache, task.cache_key)
                      /\ async_reqs' = SetState(async_reqs, task, "erased")
                 ELSE /\ response_cache' = put_response_into_cache(response_cache, settings,
                                               task.cache_key, r.response, r.upstream, now)
                      /\ async_reqs' = SetState(async_reqs, task, "put")
    /\ ux' = [ux EXCEPT !["worker"] = IdleUx]
    /\ UNCHANGED <<cfgVars, rtt, dns64_prefixes, discovery, refreshed, deinit, now, hm, obs>>

\* variant: the finalizer leaves the registry as it is
KeepTask(tasks, key) == tasks

\* the registry without the entry of a key
EraseTask(tasks, key) == { t \in tasks : t.cache_key # key }

\* lines 1206-1214: async_request_finalizer, after the worker has returned
async_request_finalizer ==
    /\ \E task \in async_reqs :
          /\ task.state \in {"put", "erased"}
          /\ async_reqs' = EraseTask(async_reqs, task.cache_key)
          /\ refreshed' = refreshed \cup {task.cache_key}
    /\ UNCHANGED <<cfgVars, rtt, dns64_prefixes, discovery, response_cache, deinit,
                   now, hm, ux, obs>>

\* uv_cancel succeeds for a task that no thread has started
Cancellable(task) == task.state = "queued"

\* lines 710-720: deinit cancels the tasks that have not started
DeinitCancel ==
    /\ deinit = "idle"
    /\ hm.pc = "idle"
    /\ async_reqs' = { t \in async_reqs : ~Cancellable(t) }
    /\ deinit' = "waiting"
    /\ UNCHANGED <<cfgVars, rtt, dns64_prefixes, discovery, response_cache, refreshed,
                   now, hm, ux, obs>>

\* variant: deinit does not wait for the tasks that have started
NotAwaited(tasks) == TRUE

\* the predicate deinit waits for on async_reqs_cv
Drained(tasks) == tasks = {}

\* lines 722-748: the wait is over; upstreams, filter and cache are destroyed
DeinitTeardown ==
    /\ deinit = "waiting"
    /\ Drained(async_reqs)
    /\ settings' = NoSettings
    /\ upstreams' = <<>>
    /\ fallbacks' = <<>>
    /\ filter_handle' = FALSE
    /\ response_cache' = <<>>
    /\ deinit' = "done"
    /\ UNCHANGED <<init_call, inputs, network, rtt, dns64_prefixes, discovery, async_reqs,
                   refreshed, now, hm, ux, obs, threads>>

\* every blocking mode, with and without custom addresses, no cache, and
\* questions of three types for names that rules block
InitBlock ==
    /\ \E mode \in {"DEFAULT", "REFUSED", "NXDOMAIN", "UNSPECIFIED_ADDRESS", "CUSTOM_ADDRESS"},
          ipv4 \in {"", "10.0.0.2"}, ipv6 \in {"", "2001:db8::1"} :
          /\ mode # "CUSTOM_ADDRESS" => ipv4 = "" /\ ipv6 = ""
          /\ settings = [SettingsOf(0, FALSE, FALSE, mode, FALSE) EXCEPT
                            !.custom_blocking_ipv4 = ipv4, !.custom_blocking_ipv6 = ipv6]
    /\ upstreams = <<1>>
    /\ fallbacks = <<2>>
    /\ rtt = [u \in UpstreamIds |-> 0]
    /\ inputs = Wire({ Query(1, name, type, FALSE) :
                         name \in {<<"ads", "example">>, <<"sink", "example">>,
                                   <<"mixed", "example">>, <<"hosts", "example">>,
                                   <<"cdn", "example">>},
                         type \in {"A", "AAAA", "TXT"} })
    /\ network = Plain
    /\ InitForwarder

\* the steps of handle_message for a question that the filter blocks
NextBlock ==
    \/ \E message \in inputs : HandleMessage(message)
    \/ ValidateQuestion
    \/ CacheLookup
    \/ CacheMiss
    \/ NotCanary
    \/ PreFilter
    \/ Return
    \/ Tick

SpecBlock == InitBlock /\ [][NextBlock]_vars

\* a cache of some capacity, the messages that are looked up and stored, and
\* the responses that may be given to them: requests that differ from a base
\* request in one field, two names that differ in the place of a dot,
\* requests under every kind of response, and three requests with three keys
\* whose responses hold one TTL or two
CacheSetups ==
    LET ShortLived == [errors |-> {}, kinds |-> {"shortlived"}, latencies |-> {1}]
        AnyResponse ==
            [errors |-> {}, latencies |-> {1},
             kinds |-> {"shortlived", "authoritative", "address", "nxdomain", "nodata",
                        "truncated", "edns", "noquestion", "zerottl"}]
        BaseRequest == Query(1, <<"ok", "example">>, "A", FALSE)
        KeyRequests ==
            { [BaseRequest EXCEPT !.id = 2],
              [BaseRequest EXCEPT !.rd = FALSE],
              [BaseRequest EXCEPT !.edns_data = TRUE, !.edns_udp_size = 1],
              [BaseRequest EXCEPT !.edns_do = TRUE, !.edns_udp_size = 1],
              [BaseRequest EXCEPT !.cd = TRUE],
              [BaseRequest EXCEPT !.question = <<Question(<<"OK", "EXAMPLE">>, "A", "IN")>>],
              [BaseRequest EXCEPT !.question = <<Question(<<"ko", "example">>, "A", "IN")>>],
              [BaseRequest EXCEPT !.question = <<Question(<<"ok", "example">>, "TXT", "IN")>>],
              [BaseRequest EXCEPT !.question = <<Question(<<"ok", "example">>, "A", "CH")>>] }
        DottedRequests ==
            { [BaseRequest EXCEPT !.question = <<Question(<<"a.b", "c">>, "A", "IN")>>],
              [BaseRequest EXCEPT !.question = <<Question(<<"a", "b.c">>, "A", "IN")>>] }
        RequestsOfTypes(types) == { Query(1, <<"ok", "example">>, type, FALSE) : type \in types }
    IN  { [size |-> MaxCacheSize, inputs |-> Wire({BaseRequest, q}), network |-> ShortLived] :
            q \in KeyRequests }
        \cup { [size |-> size, inputs |-> Wire(RequestsOfTypes({"AAAA", "TXT"})),
                network |-> AnyResponse] : size \in {0, MaxCacheSize} }
        \cup { [size |-> MaxCacheSize, inputs |-> Wire(DottedRequests), network |-> ShortLived],
               [size |-> MaxCacheSize + 1, inputs |-> Wire(RequestsOfTypes({"A", "AAAA", "TXT"})),
                network |-> [ShortLived EXCEPT !.kinds = {"shortlived", "mixedttl"}]] }

InitCache ==
    /\ \E setup \in CacheSetups :
          /\ settings = SettingsOf(setup.size, FALSE, FALSE, "DEFAULT", FALSE)
          /\ inputs = setup.inputs
          /\ network = setup.network
    /\ upstreams = <<1>>
    /\ fallbacks = <<2>>
    /\ rtt = [u \in UpstreamIds |-> 0]
    /\ InitForwarder

\* the keys in the order of their last use, with key used now
Touch(order, key) == <<key>> \o SelectSeq(order, LAMBDA k : k # key)

\* lines 847-903: put_response_into_cache for a response to one of the requests
CachePut ==
    /\ \E message \in inputs :
          \E response \in UpstreamResponses(message.pkt, network.kinds) :
             /\ response_cache' = put_response_into_cache(response_cache, settings,
                                                          get_cache_key(message.pkt), response,
                                                          Some(1), now)
             /\ hm' = [IdleFrame EXCEPT !.request = message.pkt,
                                        !.cache_key = get_cache_key(message.pkt),
                                        !.response = response]
             /\ LET key == get_cache_key(message.pkt)
                    stored == put_response_into_cache(<<>>, settings, key, response,
                                                      Some(1), now) # <<>>
                IN  obs' = [obs EXCEPT !.path = "put", !.puts = 1, !.lookups = 0,
                                       !.touched = IF stored THEN Touch(@, key) ELSE @,
                                       !.ranked = IF stored THEN Touch(@, key) ELSE @]
    /\ UNCHANGED <<cfgVars, rtt, dns64_prefixes, discovery, taskVars, now, ux>>

\* lines 765-827: create_response_from_cache for one of the requests
CacheGet ==
    /\ \E message \in inputs :
          LET key == get_cache_key(message.pkt)
              res == create_response_from_cache(response_cache, settings, key, message.pkt, now)
          IN  /\ response_cache' = res.cache
              /\ hm' = [IdleFrame EXCEPT !.request = message.pkt, !.cache_key = key,
                                         !.cached = res.r]
              /\ obs' = [obs EXCEPT
                           !.path = "lookup", !.lookups = 1, !.puts = 0,
                           !.touched = IF res.r.response # NoPkt THEN Touch(@, key) ELSE @,
                           !.ranked = IF res.r.response = NoPkt THEN @
                                      ELSE IF res.r.expired
                                      THEN SelectSeq(@, LAMBDA k : k # key) \o <<key>>
                                      ELSE Touch(@, key)]
    /\ UNCHANGED <<cfgVars, rtt, dns64_prefixes, discovery, taskVars, now, ux>>

NextCache == CachePut \/ CacheGet \/ Tick

SpecCache == InitCache /\ [][NextCache]_vars

\* upstreams that answer an AAAA question with an address of the other family,
\* with an alias and such an address, or with none, or do not answer in time,
\* in a network with one prefix, with two, or with a prefix that cannot be used
Ipv4Only == [errors |-> {TIMEOUT_STR}, kinds |-> {"answered", "address", "nodata", "aliased"},
             latencies |-> {1},
             prefixes |-> { <<PREFIX_WKP>>, <<PREFIX_WKP, PREFIX_NET>>,
                            <<PREFIX_ODD, PREFIX_NET>>, <<PREFIX_ODD>> }]

\* a forwarder with and without DNS64, whose discovery has two upstreams and
\* one round more than the other deployments, no cache, and questions of
\* both address types for a name no rule matches
InitDns64 ==
    /\ settings \in { SettingsOf(0, FALSE, FALSE, "DEFAULT", FALSE),
                      [SettingsOf(0, FALSE, FALSE, "DEFAULT", TRUE) EXCEPT
                          !.dns64 = Some([max_tries |-> MaxTries + 1, upstreams |-> <<3, 1>>])] }
    /\ upstreams = <<1>>
    /\ fallbacks = <<2>>
    /\ rtt = [u \in UpstreamIds |-> 0]
    /\ inputs = FailoverWorkload
    /\ network = Ipv4Only
    /\ InitForwarder

\* the steps of handle_message for a question that is forwarded, and the
\* prefix discovery
NextDns64 ==
    \/ \E message \in inputs : HandleMessage(message)
    \/ ValidateQuestion
    \/ CacheLookup
    \/ CacheMiss
    \/ NotCanary
    \/ PreFilter
    \/ UxSort("client")
    \/ UxExchange("client")
    \/ UxExhausted("client")
    \/ UpstreamFailure
    \/ PostFilter
    \/ Dns64Skip
    \/ Dns64Synthesis
    \/ Finish
    \/ Return
    \/ DiscoveryRound

SpecDns64 == InitDns64 /\ [][NextDns64]_vars

\* a forwarder with a cache, with and without DNS64, questions for a name no
\* rule matches, for a name an exception allows and for a name that hosts-style
\* rules rewrite, and upstreams whose
\* answers hold names and addresses that rules block, at the first place of
\* the answer and further on, with rcode NOERROR and with another one
InitPostFilter ==
    /\ \E dns64 \in BOOLEAN : settings = SettingsOf(MaxCacheSize, FALSE, FALSE, "DEFAULT", dns64)
    /\ upstreams = <<1>>
    /\ fallbacks = <<2>>
    /\ rtt = [u \in UpstreamIds |-> 0]
    /\ inputs = FailoverWorkload
                \cup Wire({ Query(1, <<"white", "example">>, "A", FALSE),
                            Query(1, <<"cdn", "example">>, "A", FALSE) })
    /\ network = [errors |-> {TIMEOUT_STR}, latencies |-> {1},
                  kinds |-> {"answered", "cname", "address", "chain", "aliased",
                             "failedcname"}]
    /\ InitForwarder

NextPostFilter == NextDns64 \/ CacheHit

SpecPostFilter == InitPostFilter /\ [][NextPostFilter]_vars

\* the discovery thread is detached (line 696) and scheduled whatever the
\* other threads do: a round that can be made again and again is made
SpecDiscovery == SpecDns64 /\ SF_vars(DiscoveryRound)

\* us_factory.create_upstream for each of the options: the ids of the
\* upstreams that could be created, in the order of the options
CreateUpstreams(options) ==
    LET made == SelectSeq(options, LAMBDA o : o.valid)
    IN  [i \in 1..Len(made) |-> made[i].id]

\* filter.create: the handle, and an error or the warnings
filter_create(params) ==
    CASE params = "sound" -> [handle |-> TRUE, err_or_warn |-> Nullopt]
      [] params = "warnings" -> [handle |-> TRUE, err_or_warn |-> Some("warnings")]
      [] params = "broken" -> [handle |-> FALSE, err_or_warn |-> Some("cannot create")]

\* variant: a deinit that leaves the members as they are
deinit_leaving_members(m) == m

\* lines 710-749: deinit of a forwarder that has no refresh task
deinit_members(m) ==
    [m EXCEPT !.settings = NoSettings, !.upstreams = <<>>, !.fallbacks = <<>>,
              !.filter_handle = FALSE, !.response_cache = <<>>, !.deinit = "done"]

InitFailure(err, m) == [ret |-> [ok |-> FALSE, err |-> err], members |-> deinit_members(m)]

\* lines 566-705: init with the settings args on the members m; ret is the
\* pair returned
init(args, m) ==
    LET custom == args.blocking_mode = "CUSTOM_ADDRESS"
        pointed == [m EXCEPT !.settings = args]
        equipped == [pointed EXCEPT
                        !.upstreams = @ \o CreateUpstreams(args.upstreams),
                        !.fallbacks = @ \o CreateUpstreams(args.fallbacks)]
        created == filter_create(args.filter_params)
    IN  IF custom /\ args.custom_blocking_ipv4 # ""
                  /\ ~is_valid_ip4(args.custom_blocking_ipv4)
        THEN InitFailure(Some(<<"Invalid custom blocking IPv4 address",
                                args.custom_blocking_ipv4>>), pointed)
        ELSE IF custom /\ args.custom_blocking_ipv6 # ""
                       /\ ~is_valid_ip6(args.custom_blocking_ipv6)
        THEN InitFailure(Some(<<"Invalid custom blocking IPv6 address",
                                args.custom_blocking_ipv6>>), pointed)
        ELSE IF equipped.upstreams = <<>> /\ equipped.fallbacks = <<>>
        THEN InitFailure(Some(<<"Failed to initialize any upstream">>), equipped)
        ELSE IF ~created.handle
        THEN InitFailure(created.err_or_warn, equipped)
        ELSE [ret |-> [ok |-> TRUE, err |-> created.err_or_warn],
              members |-> [equipped EXCEPT
                              !.filter_handle = TRUE,
                              !.discovery = DiscoveryThread(args)]]

\* the forwarder as init(args, ...) has left it, r being what init computed
Initialized(args, r) ==
    /\ settings' = r.members.settings
    /\ upstreams' = r.members.upstreams
    /\ fallbacks' = r.members.fallbacks
    /\ filter_handle' = r.members.filter_handle
    /\ response_cache' = r.members.response_cache
    /\ discovery' = r.members.discovery
    /\ deinit' = r.members.deinit
    /\ init_call' = Some([settings |-> args, ret |-> r.ret])

\* the settings init is called with: a blocking mode with custom addresses
\* that are empty, valid or not, options of upstreams and fallbacks that can
\* be created or not, and parameters of the filter
InitArgs ==
    LET Options(ids, valid) == [i \in 1..Len(ids) |-> [id |-> ids[i], valid |-> ids[i] \in valid]]
        Blocking == { <<"DEFAULT", "", "">>, <<"DEFAULT", "256.0.0.1", "">> }
                    \cup { <<"CUSTOM_ADDRESS", ipv4, ipv6>> :
                             ipv4 \in {"", "10.0.0.2", "256.0.0.1"},
                             ipv6 \in {"", "2001:db8::1", "10.0.0.2"} }
    IN  { [SettingsOf(0, FALSE, FALSE, b[1], dns64) EXCEPT
              !.custom_blocking_ipv4 = b[2], !.custom_blocking_ipv6 = b[3]]
          @@ [upstreams |-> Options(ids, valid), fallbacks |-> Options(fallback_ids, valid),
              filter_params |-> filter_params] :
            b \in Blocking, ids \in {<<>>, <<1>>, <<1, 2>>}, fallback_ids \in {<<>>, <<3>>},
            valid \in SUBSET UpstreamIds,
            filter_params \in {"sound", "warnings", "broken"}, dns64 \in BOOLEAN }

\* lines 566-705: the application calls init on a forwarder
InitCall ==
    /\ init_call = Nullopt
    /\ deinit = "idle"
    /\ \E args \in InitArgs :
          Initialized(args, init(args, [settings |-> settings, upstreams |-> upstreams,
                                        fallbacks |-> fallbacks,
                                        filter_handle |-> filter_handle,
                                        response_cache |-> response_cache,
                                        discovery |-> discovery, deinit |-> deinit]))
    /\ UNCHANGED <<inputs, network, rtt, dns64_prefixes, async_reqs, refreshed, now,
                   hm, ux, obs, threads>>

\* lines 91-101 of the header: a forwarder that was constructed
InitConstructed ==
    /\ settings = NoSettings
    /\ upstreams = <<>>
    /\ fallbacks = <<>>
    /\ filter_handle = FALSE
    /\ init_call = Nullopt
    /\ rtt = [u \in UpstreamIds |-> 0]
    /\ inputs = FailoverWorkload
    /\ network = Plain
    /\ dns64_prefixes = <<>>
    /\ discovery = [left |-> 0, tried |-> <<>>]
    /\ response_cache = <<>>
    /\ async_reqs = {}
    /\ refreshed = {}
    /\ deinit = "idle"
    /\ now = 0
    /\ hm = IdleFrame
    /\ ux = [c \in Callers |-> IdleUx]
    /\ obs = NewObs
    /\ threads = IdleThreads

\* init, and the deinit the application calls afterwards
NextInit == InitCall \/ DeinitCancel \/ DeinitTeardown

SpecInit == InitConstructed /\ [][NextInit]_vars

\* the steps that can be taken under InitRefresh: every error of Unsteady is a
\* timeout, which is not retried, and the settings enable neither the canary
\* name, the IPv6 block, DNS64 nor a second discovery round
NextRefresh ==
    \/ deinit = "idle" /\ \E message \in inputs : HandleMessage(message)
    \/ ValidateQuestion
    \/ CacheLookup
    \/ CacheHit
    \/ CacheMiss
    \/ NotCanary
    \/ PreFilter
    \/ \E c \in Callers : UxSort(c)
    \/ \E c \in Callers : UxExchange(c)
    \/ \E c \in Callers : UxExhausted(c)
    \/ UpstreamFailure
    \/ PostFilter
    \/ Dns64Skip
    \/ Finish
    \/ Return
    \/ Tick
    \/ WorkerStart
    \/ WorkerFinish
    \/ async_request_finalizer
    \/ DeinitCancel
    \/ DeinitTeardown

SpecRefresh == InitRefresh /\ [][NextRefresh]_vars

-----------------------------------------------------------------------------
(* Properties of handle_message, stated on the state in which the call is   *)
(* about to return hm.ret, with obs telling what the call did.              *)

Returned == hm.pc = "done"

Reply == hm.ret.pkt

HasQuestion == hm.request # NoPkt /\ hm.request.question # <<>>

\* the input bytes hold no DNS message
Unparsable == hm.message.pkt = NoPkt

NoUpstreamContacted == obs.xlog = <<>>

EntryFor(key) == response_cache[CacheIndex(response_cache, key)].val

AllRRs(pkt) == pkt.answer \o pkt.authority \o pkt.additional

\* the response hm.response was inserted into the cache by this call
InsertedNow ==
    /\ Returned
    /\ obs.path = "forwarded"
    /\ response_cache # <<>>
    /\ response_cache[1].key = hm.cache_key
    /\ response_cache[1].val.response = [hm.response EXCEPT !.question = <<>>, !.aa = FALSE]

\* the upstreams that answered the request of this call
AnsweredBy ==
    { obs.xlog[i].upstream : i \in { k \in 1..Len(obs.xlog) :
                                       obs.xlog[k].group > 0 /\ obs.xlog[k].error = Nullopt } }

\* the effective rules of the queried name, and the blocking response for them
QnameRules == get_effective_rules(filter_match(pure_domain))

QnameBlocked == QnameRules # <<>> /\ ~QnameRules[1].exception

QnameBlockingResponse == create_blocking_response(hm.request, settings, QnameRules)

C2_OneEventPerCall == Returned => Len(obs.emitted) = 1

\* the time left to the cache entry e, in whole seconds, rounded up
RemainingSecs(e) == (e.expires_at - now + TicksPerSec - 1) \div TicksPerSec

\* the lookup of this call was made while the entry of its key was fresh
FreshLookup ==
    /\ hm.pc = "cached"
    /\ CacheIndex(response_cache, hm.cache_key) # 0
    /\ now < EntryFor(hm.cache_key).expires_at

\* the lookup returned the entry patched for the live request
PatchedForLiveRequest ==
    /\ hm.cached.response # NoPkt
    /\ ~hm.cached.expired
    /\ RemainingSecs(EntryFor(hm.cache_key)) >= 1
    /\ \A i \in 1..Len(AllRRs(hm.cached.response)) :
          AllRRs(hm.cached.response)[i].ttl = RemainingSecs(EntryFor(hm.cache_key))
    /\ hm.cached.response.id = hm.request.id
    /\ hm.cached.response.question = hm.request.question

\* an entry inserted at t0 with minimum TTL tau expires at t0 + tau, tau >= 1
StoredUntilMinTtl ==
    InsertedNow =>
        /\ compute_min_rr_ttl(hm.response) >= 1
        /\ response_cache[1].val.expires_at =
              now + compute_min_rr_ttl(hm.response) * TicksPerSec

\* C3 as stated: every lookup for the fingerprint of a stored response at
\* t0 <= t < t0 + tau returns it with every TTL equal to ceil(t0 + tau - t),
\* the id and the question of the live request.
C3_EveryLookupPatched == StoredUntilMinTtl /\ (FreshLookup => PatchedForLiveRequest)

\* C3: a response is stored until t0 + tau, and every lookup at t0 <= t < t0 + tau
\* by a request without unsupported EDNS extensions returns it with every TTL
\* equal to ceil(t0 + tau - t), at least 1, the id and the question of the live
\* request; a request with such extensions gets a miss.
C3_SupportedLookupPatched ==
    /\ StoredUntilMinTtl
    /\ FreshLookup =>
          IF has_unsupported_extensions(hm.request)
          THEN hm.cached = NoCacheResult
          ELSE PatchedForLiveRequest

C3_Witness ==
    /\ FreshLookup
    /\ PatchedForLiveRequest
    /\ hm.cached.response.answer[1].ttl < EntryFor(hm.cache_key).response.answer[1].ttl
    /\ hm.cached.response.id # EntryFor(hm.cache_key).response.id

\* the call found a cache entry that is not expired
FreshHit == Returned /\ hm.cached.response # NoPkt /\ ~hm.cached.expired

\* C4: on a non-expired cache entry handle_message answers from the cache,
\* contacts no upstream and does not consult the filter; the event has
\* cache_hit = true and the upstream id recorded at insertion, which is the id
\* of the upstream that answered.
C4_FreshHitServedFromCache ==
    /\ FreshHit =>
          /\ obs.path = "cache_hit"
          /\ Reply = hm.cached.response
          /\ NoUpstreamContacted
          /\ obs.filter_log = <<>>
          /\ Len(obs.emitted) = 1
          /\ obs.emitted[1].cache_hit
          /\ obs.emitted[1].upstream_id = EntryFor(hm.cache_key).upstream_id
    /\ InsertedNow =>
          response_cache[1].val.upstream_id \in { Some(u) : u \in AnsweredBy }

C4_Witness ==
    /\ FreshHit
    /\ obs.path = "cache_hit"
    /\ obs.emitted[1].upstream_id = Some(2)

\* C5: a request for use-application-dns.net. of type A or AAAA gets NXDOMAIN
\* with an SOA in the authority section in every reachable state, and no
\* upstream is contacted for it.
C5_CanaryAlwaysNxdomain ==
    (/\ Returned
     /\ HasQuestion
     /\ hm.request.question[1].owner = MOZILLA_DOH_HOST.labels
     /\ Type \in {"A", "AAAA"})
    => /\ Reply.rcode = "NXDOMAIN"
       /\ \E i \in 1..Len(Reply.authority) : Reply.authority[i].type = "SOA"
       /\ NoUpstreamContacted

\* the message has rcode NOERROR, no answer and one SOA with RETRY 60
SoaNoerrorRetry60(pkt) ==
    /\ pkt.rcode = "NOERROR"
    /\ pkt.answer = <<>>
    /\ Len(pkt.authority) = 1
    /\ pkt.authority[1].type = "SOA"
    /\ pkt.authority[1].rdfs[1].retry = 60

Ipv6Request == Returned /\ HasQuestion /\ Type = "AAAA" /\ settings.block_ipv6

\* C6 as stated: any AAAA request handled while block_ipv6 is set gets NOERROR,
\* no answer and one SOA with RETRY 60, whatever the rules, the cache and the name.
C6_Ipv6AlwaysSoa == Ipv6Request => SoaNoerrorRetry60(Reply)

\* C6: an AAAA request handled while block_ipv6 is set gets NOERROR, no answer
\* and one SOA with RETRY 60, whatever the cache holds, unless its name is the
\* canary name or the filter yields a blocking response with another rcode
\* than NOERROR.
C6_Ipv6SoaUnlessCanaryOrRefused ==
    (/\ Ipv6Request
     /\ ~IsCanary
     /\ ~(QnameBlocked /\ QnameBlockingResponse.rcode # "NOERROR"))
    => SoaNoerrorRetry60(Reply)

C6_Witness ==
    /\ Ipv6Request
    /\ QnameBlocked
    /\ QnameBlockingResponse.rcode = "NOERROR"
    /\ SoaNoerrorRetry60(Reply)

\* C7: with block_ipv6 set, an AAAA request that is neither served from the
\* cache nor the canary takes the IPv6 blocking step: no upstream is contacted,
\* the filter is run on the queried name, and the reply is the filter's
\* blocking response when there is one with another rcode than NOERROR, else
\* the SOA response with rcode NOERROR and RETRY 60.
C7_Ipv6BlockStep ==
    (Ipv6Request /\ ~Served /\ ~IsCanary)
    => /\ obs.path = "ipv6_block"
       /\ NoUpstreamContacted
       /\ obs.puts = 0
       /\ obs.filter_log = <<pure_domain>>
       /\ IF QnameBlocked /\ QnameBlockingResponse.rcode # "NOERROR"
          THEN Reply = QnameBlockingResponse
          ELSE /\ SoaNoerrorRetry60(Reply)
               /\ Reply.id = hm.request.id
               /\ Reply.question = hm.request.question

C7_Witness ==
    /\ Ipv6Request
    /\ obs.path = "ipv6_block"
    /\ QnameBlocked
    /\ Reply.rcode = "REFUSED"

\* the call came to the pre-filter step
ReachedPreFilter ==
    /\ Returned
    /\ HasQuestion
    /\ ~Served
    /\ ~IsCanary
    /\ ~(settings.block_ipv6 /\ Type = "AAAA")

\* C8: in the pre-filter step, effective rules that are non-empty with element
\* 0 not an exception make handle_message return the blocking response without
\* contacting an upstream or inserting into the cache; otherwise the request
\* goes on to the upstream dispatch.
C8_PreFilterDecides ==
    ReachedPreFilter =>
        /\ obs.filter_log # <<>>
        /\ obs.filter_log[1] = pure_domain
        /\ IF QnameBlocked
           THEN /\ obs.path = "pre_filter_block"
                /\ Reply = QnameBlockingResponse
                /\ NoUpstreamContacted
                /\ obs.puts = 0
           ELSE /\ obs.path \in {"upstream_failure", "post_filter_block", "forwarded"}
                /\ ~NoUpstreamContacted

C8_Witness ==
    /\ ReachedPreFilter
    /\ obs.path = "pre_filter_block"
    /\ NoUpstreamContacted
    /\ Reply.rcode = "REFUSED"

\* a and b differ in the TTLs of their records at most
EqualButTtl(a, b) ==
    [a EXCEPT !.answer = SetTtls(@, 0), !.authority = SetTtls(@, 0),
              !.additional = SetTtls(@, 0)]
    = [b EXCEPT !.answer = SetTtls(@, 0), !.authority = SetTtls(@, 0),
                !.additional = SetTtls(@, 0)]

\* m is a DNS64 synthesis for the request of this call
IsDns64Synthesis(m) ==
    /\ settings.dns64 # Nullopt
    /\ dns64_prefixes # <<>>
    /\ Type = "AAAA"
    /\ obs.upstream_response.rcode = "NOERROR"
    /\ CountType(obs.upstream_response.answer, "AAAA") = 0
    /\ \E id \in RequestIds :
          \E result_a \in ExchangeResults(Dns64RequestA(hm.request, id), network) :
             m = Dns64Synthesize(hm.request, result_a, dns64_prefixes)

\* no rule matches the queried name, or the decisive one is an exception
QnameAllowed == Returned /\ HasQuestion /\ ~QnameBlocked

-----------------------------------------------------------------------------
(* Properties of do_upstream_exchange, stated on the log of the call *)

Primaries == { upstreams[k] : k \in 1..Len(upstreams) }

\* C10: within one do_upstream_exchange call no fallback is exchanged with
\* before every primary was tried and failed, and within a group the upstreams
\* are tried in non-decreasing order of the rtt they had when the group was
\* sorted, whatever happens to the rtts during the loop.
C10_PrimariesFirstBySnapshotRtt ==
    LET log == ux["client"].log
    IN  /\ \A i \in 1..Len(log) :
              log[i].group = 2 =>
                 /\ \A p \in Primaries : \E j \in 1..(i - 1) : log[j].upstream = p
                 /\ \A j \in 1..(i - 1) : log[j].group = 1 => log[j].error # Nullopt
        /\ \A i, j \in 1..Len(log) :
              (i < j /\ log[i].group = log[j].group) => log[i].rtt <= log[j].rtt

C10_Witness ==
    LET log == ux["client"].log
    IN  /\ Len(log) >= 3
        /\ log[Len(log)].group = 2
        /\ log[1].upstream # upstreams[1]
        /\ rtt[log[1].upstream] > rtt[upstreams[1]]

-----------------------------------------------------------------------------
(* Properties of the exchanges of one do_upstream_exchange call: the log of *)
(* the call while it runs, and as handle_message saw it afterwards.         *)

IsDispatchEntry(e) == e.group > 0

DispatchLog ==
    IF ux["client"].pc = "idle"
    THEN SelectSeq(obs.xlog, IsDispatchEntry)
    ELSE ux["client"].log

ExchangesWith(log, u) == { i \in 1..Len(log) : log[i].upstream = u }

TimedOut(e) == e.error = Some(TIMEOUT_STR)

FailedOtherwise(e) == e.error # Nullopt /\ ~TimedOut(e)

\* at most two exchanges per upstream: none after a timeout, one retry after
\* another error, and nothing after the first success
RetryDiscipline(log) ==
    /\ \A u \in UpstreamIds : Cardinality(ExchangesWith(log, u)) <= 2
    /\ \A i \in 1..Len(log) :
          /\ (~log[i].retry /\ TimedOut(log[i]))
                => Cardinality(ExchangesWith(log, log[i].upstream)) = 1
          /\ (~log[i].retry /\ FailedOtherwise(log[i]))
                => IF i = Len(log)
                   THEN ux["client"].pc = "retry"
                   ELSE /\ log[i + 1].retry
                        /\ log[i + 1].upstream = log[i].upstream
                        /\ Cardinality(ExchangesWith(log, log[i].upstream)) = 2
          /\ log[i].retry
                => /\ i > 1
                   /\ ~log[i - 1].retry
                   /\ log[i - 1].upstream = log[i].upstream
                   /\ FailedOtherwise(log[i - 1])
          /\ log[i].error = Nullopt => i = Len(log)

\* the call of the dispatcher made by this handle_message ended with an answer
DispatchAnswered ==
    /\ Returned
    /\ DispatchLog # <<>>
    /\ DispatchLog[Len(DispatchLog)].error = Nullopt

\* C11: within one do_upstream_exchange call an upstream is exchanged with at
\* most twice, once when its first exchange times out, twice when it fails
\* otherwise; the first success ends the call, the upstream returned is the
\* one that answered, and the event of the request carries its id.
C11_RetryOnceAndReportAnswerer ==
    /\ RetryDiscipline(DispatchLog)
    /\ ux["client"].pc = "returned" /\ ux["client"].ret.response # NoPkt
          => /\ DispatchLog[Len(DispatchLog)].error = Nullopt
             /\ ux["client"].ret.upstream = Some(DispatchLog[Len(DispatchLog)].upstream)
    /\ DispatchAnswered
          => /\ Len(obs.emitted) = 1
             /\ obs.emitted[1].upstream_id = Some(DispatchLog[Len(DispatchLog)].upstream)

\* the part of C11 that is about the dispatcher alone
C11_DispatcherPart ==
    /\ RetryDiscipline(DispatchLog)
    /\ ux["client"].pc = "returned" /\ ux["client"].ret.response # NoPkt
          => /\ DispatchLog[Len(DispatchLog)].error = Nullopt
             /\ ux["client"].ret.upstream = Some(DispatchLog[Len(DispatchLog)].upstream)
    /\ (DispatchAnswered /\ obs.path = "forwarded")
          => obs.emitted[1].upstream_id = Some(DispatchLog[Len(DispatchLog)].upstream)

\* every exchange of the dispatcher call made by this handle_message failed
AllUpstreamsFailed ==
    /\ Returned
    /\ DispatchLog # <<>>
    /\ \A i \in 1..Len(DispatchLog) : DispatchLog[i].error # Nullopt

LastTried == DispatchLog[Len(DispatchLog)]

\* the error text err names the upstream of the exchange e and its error
Describes(err, e) == Len(err) = 4 /\ err[2] = e.upstream /\ err[4] = e.error[1]

\* the reply and the event of a call for which no upstream answered, but for
\* the text of the error
ServfailForFailedUpstreams ==
    /\ obs.path = "upstream_failure"
    /\ Reply.rcode = "SERVFAIL"
    /\ Reply.id = hm.request.id
    /\ Reply.question = hm.request.question
    /\ Len(obs.emitted) = 1
    /\ obs.emitted[1].upstream_id = Some(LastTried.upstream)
    /\ obs.puts = 0

\* C12: when every primary and every fallback fails, the dispatcher returns no
\* response, the error of the last upstream tried and that upstream;
\* handle_message returns SERVFAIL with the id and the question of the request,
\* its event has the id of the last upstream tried and a non-empty error that
\* describes that failure, and nothing is inserted into the cache.
C12_FailureReportsLastError ==
    /\ (ux["client"].pc = "returned" /\ ux["client"].ret.response = NoPkt)
          => /\ ux["client"].ret.upstream = Some(LastTried.upstream)
             /\ ux["client"].ret.error # Nullopt
             /\ Describes(ux["client"].ret.error[1], LastTried)
    /\ AllUpstreamsFailed
          => /\ ServfailForFailedUpstreams
             /\ obs.emitted[1].error # <<>>
             /\ Describes(obs.emitted[1].error, LastTried)

\* the part of C12 that is not about the text of the error
C12_ServfailPart ==
    /\ (ux["client"].pc = "returned" /\ ux["client"].ret.response = NoPkt)
          => ux["client"].ret.upstream = Some(LastTried.upstream)
    /\ AllUpstreamsFailed => ServfailForFailedUpstreams
    /\ (AllUpstreamsFailed /\ ~TimedOut(LastTried))
          => Describes(obs.emitted[1].error, LastTried)

\* the lookup of this call found an entry that had expired
ExpiredHit == Returned /\ hm.cached.response # NoPkt /\ hm.cached.expired

\* the step of handle_message that looks up an entry whose time is over
ExpiredLookupStep ==
    /\ hm.pc = "cache_lookup"
    /\ hm'.pc = "cached"
    /\ ~has_unsupported_extensions(hm.request)
    /\ CacheIndex(response_cache, get_cache_key(hm.request)) # 0
    /\ EntryFor(get_cache_key(hm.request)).expires_at <= now

\* the lookup result is the stored response with every TTL 1, for this request
StaleEntryPatched ==
    /\ hm'.cached.expired
    /\ hm'.cached.response.id = hm.request.id
    /\ hm'.cached.response.question = hm.request.question
    /\ hm'.cached.response.answer =
          SetTtls(EntryFor(get_cache_key(hm.request)).response.answer, 1)
    /\ \A i \in 1..Len(AllRRs(hm'.cached.response)) : AllRRs(hm'.cached.response)[i].ttl = 1

\* the call answered from the cache alone, on the thread of the caller
AnsweredStale ==
    /\ obs.path = "cache_hit"
    /\ Reply = hm.cached.response
    /\ \A i \in 1..Len(AllRRs(Reply)) : AllRRs(Reply)[i].ttl = 1
    /\ Len(obs.emitted) = 1
    /\ obs.emitted[1].cache_hit
    /\ NoUpstreamContacted
    /\ ux["client"].pc = "idle"

OneTaskPerFingerprint ==
    \A t1 \in async_reqs, t2 \in async_reqs : t1.cache_key = t2.cache_key => t1 = t2

CacheableResponse(response) ==
    /\ ~response.tc
    /\ Len(response.question) = 1
    /\ response.rcode = "NOERROR"
    /\ ~has_unsupported_extensions(response)
    /\ response.question[1].type \in {"A", "AAAA"}
          => CountType(response.answer, response.question[1].type) >= 1
    /\ compute_min_rr_ttl(response) >= 1

RunningTask == CHOOSE task \in async_reqs : task.state = "running"

\* the worker thread takes a task and calls the dispatcher
WorkerStartStep == ux["worker"].pc = "idle" /\ ux'["worker"].pc # "idle"

\* the dispatcher has returned to the worker thread, which ends the task
WorkerFinishStep == ux["worker"].pc = "returned" /\ ux'["worker"].pc = "idle"

\* the finalizer of a task whose worker has ended
FinalizerStep ==
    /\ \E task \in async_reqs : task.state \in {"put", "erased"}
    /\ refreshed' # refreshed \/ async_reqs' # async_reqs
    /\ UNCHANGED <<response_cache, deinit, hm, ux, obs, now>>

\* the cache after the task: the response of the dispatcher stored under the
\* fingerprint of the task, or no entry for the fingerprint when all failed
RefreshOutcome(task, ret) ==
    IF ret.response = NoPkt
    THEN /\ CacheIndex(response_cache', task.cache_key) = 0
         /\ \A key \in { response_cache[i].key : i \in 1..Len(response_cache) } \ {task.cache_key} :
               CacheIndex(response_cache', key) # 0
    ELSE IF CacheableResponse(ret.response)
    THEN /\ response_cache'[1].key = task.cache_key
         /\ response_cache'[1].val.response =
               [ret.response EXCEPT !.question = <<>>, !.aa = FALSE]
         /\ response_cache'[1].val.upstream_id = ret.upstream
         /\ response_cache'[1].val.expires_at =
               now + compute_min_rr_ttl(ret.response) * TicksPerSec
    ELSE response_cache' = response_cache

\* C14: a refresh task runs the dispatcher for the request stored in it; a
\* response obtained is put into the cache under the fingerprint of the task
\* (an insert that the cacheability rules turn down leaves the cache as it
\* is), and when every upstream fails the entry of the fingerprint is erased;
\* in both cases the finalizer removes the fingerprint from the registry, so
\* that a later expired hit can schedule a new refresh.
C14_RefreshTaskOutcome ==
    /\ [](\A task \in async_reqs : get_cache_key(task.request) = task.cache_key)
    /\ [][WorkerStartStep =>
             \E task \in async_reqs :
                /\ task.state = "queued"
                /\ ux'["worker"].request = task.request
                /\ ux'["worker"].log = <<>>]_vars
    /\ [][WorkerFinishStep =>
             /\ RefreshOutcome(RunningTask, ux["worker"].ret)
             /\ ux["worker"].request = RunningTask.request]_vars
    /\ [][FinalizerStep =>
             \E task \in async_reqs :
                /\ task.state \in {"put", "erased"}
                /\ async_reqs' = async_reqs \ {task}
                /\ \A other \in async_reqs' : other.cache_key # task.cache_key
                /\ refreshed' = refreshed \cup {task.cache_key}]_vars

\* a fingerprint that was refreshed and finalized has a new task queued by a
\* later expired hit, with the refreshed entry in the cache
C14_Witness ==
    /\ ExpiredHit
    /\ ~hm.req_holder
    /\ hm.cache_key \in refreshed
    /\ \E task \in async_reqs : task.cache_key = hm.cache_key /\ task.state = "queued"

\* deinit has passed the wait and destroys, or has destroyed, its objects
TeardownBegun == deinit = "done"

\* the loop of deinit over the registry
CancelStep == deinit = "idle" /\ deinit' = "waiting"

\* the end of the wait of deinit
TeardownStep == deinit = "waiting" /\ deinit' = "done"

\* C15: deinit removes from the registry every refresh task that has not
\* started and keeps the started ones, destroys the upstreams and the cache
\* only when the registry is empty, and from then on no refresh worker is
\* executing, or starts, an upstream exchange or a cache write.
C15_TeardownAfterDrain ==
    /\ [](TeardownBegun =>
             /\ async_reqs = {}
             /\ ux["worker"].pc = "idle"
             /\ upstreams = <<>> /\ fallbacks = <<>> /\ response_cache = <<>>)
    /\ [][CancelStep =>
             /\ async_reqs' = { task \in async_reqs : task.state # "queued" }
             /\ UNCHANGED <<upstreams, fallbacks, response_cache>>]_vars
    /\ [][deinit = "waiting" /\ async_reqs # {} =>
             /\ deinit' = "waiting"
             /\ UNCHANGED <<settings, upstreams, fallbacks>>
             /\ \A task \in async_reqs' : task \in async_reqs \/ task.state # "queued"]_vars
    /\ [][TeardownStep => async_reqs = {} /\ ux["worker"].pc = "idle"]_vars
    /\ [][TeardownBegun => UNCHANGED <<ux, response_cache, async_reqs, deinit>>]_vars

\* deinit waits while the worker is in an exchange of a task that had started
C15_Witness ==
    /\ deinit = "waiting"
    /\ ux["worker"].pc = "exchange"
    /\ \E task \in async_reqs : task.state = "running"
    /\ \E task \in async_reqs : task.state \in {"put", "erased"}

\* the entry under key holds a template that passed every rule of the insert
CacheableEntry(key, val) ==
    /\ settings.dns_cache_size > 0
    /\ ~val.response.tc
    /\ val.response.rcode = "NOERROR"
    /\ ~val.response.edns_data
    /\ val.response.edns_extended_rcode = 0
    /\ val.response.edns_unassigned = 0
    /\ key[1] \in {"A", "AAAA"} => CountType(val.response.answer, key[1]) >= 1
    /\ compute_min_rr_ttl(val.response) >= 1
    /\ val.response.question = <<>>
    /\ ~val.response.aa

\* a step that puts the response hm'.response at time now
PutStep == obs'.path = "put" /\ now' = now

\* the response of the put is at the head of the cache, as a template
StoredAsTemplate(key, response) ==
    /\ response_cache' # <<>>
    /\ response_cache'[1].key = key
    /\ response_cache'[1].val.response = [response EXCEPT !.question = <<>>, !.aa = FALSE]
    /\ response_cache'[1].val.expires_at = now + compute_min_rr_ttl(response) * TicksPerSec

LookedUp == obs.path = "lookup"

\* C16: after any sequence of inserts every entry of the cache comes from a
\* response that met every cacheability rule (cache size > 0, TC clear, one
\* question, NOERROR, no EDNS data, extended rcode or unassigned flag, an
\* answer of the queried type for A and AAAA, minimum TTL >= 1) and is stored
\* without question and with AA clear; an insert that breaks a rule leaves the
\* cache unchanged; with dns_cache_size = 0 every lookup is a miss.
C16_OnlyCacheableStored ==
    /\ [](\A i \in 1..Len(response_cache) :
             CacheableEntry(response_cache[i].key, response_cache[i].val))
    /\ [][PutStep =>
             IF settings.dns_cache_size > 0 /\ CacheableResponse(hm'.response)
             THEN StoredAsTemplate(hm'.cache_key, hm'.response)
             ELSE response_cache' = response_cache]_vars
    /\ [](LookedUp /\ settings.dns_cache_size = 0 => hm.cached = NoCacheResult)

\* an authoritative answer was stored for a request
C16_Witness ==
    /\ obs.path = "put"
    /\ hm.response.aa
    /\ response_cache # <<>>
    /\ response_cache[1].key = hm.cache_key
    /\ response_cache[1].val.response = [hm.response EXCEPT !.question = <<>>, !.aa = FALSE]

CachedKeys == { response_cache[i].key : i \in 1..Len(response_cache) }

\* the key of the cache that comes last in an order of the keys
LastCached(order) ==
    LET cached == SelectSeq(order, LAMBDA k : k \in CachedKeys)
    IN  cached[Len(cached)]

\* a put that stores a new key in a full cache
EvictStep ==
    /\ PutStep
    /\ settings.dns_cache_size > 0
    /\ Len(response_cache) = settings.dns_cache_size
    /\ hm'.cache_key \notin CachedKeys
    /\ response_cache' # response_cache

\* the keys that leave the cache in a step
Evicted == { key \in CachedKeys : \A i \in 1..Len(response_cache') : response_cache'[i].key # key }

WithinCapacity == Len(response_cache) <= settings.dns_cache_size

\* C17 as stated: the cache never holds more than dns_cache_size entries, and
\* an insert beyond the capacity removes the entry whose last use, insert or
\* lookup, is the oldest.
C17_EvictsLeastRecentlyTouched ==
    /\ []WithinCapacity
    /\ [][EvictStep => Evicted = {LastCached(obs.touched)}]_vars

\* C17, amended: the cache never holds more than dns_cache_size entries, and
\* an insert beyond the capacity removes the entry that is last in the order
\* in which an insert or a lookup of an unexpired entry puts the entry first
\* and a lookup that finds the entry expired puts it last.
C17_EvictsLastRanked ==
    /\ []WithinCapacity
    /\ [][EvictStep => Evicted = {LastCached(obs.ranked)}]_vars

\* an insert has removed the entry that was looked up last, after its expiry
C17_Witness ==
    /\ obs.path = "put"
    /\ Len(response_cache) = settings.dns_cache_size
    /\ Len(obs.touched) = 3
    /\ obs.touched[1] = hm.cache_key
    /\ response_cache[1].key = hm.cache_key
    /\ obs.touched[2] \notin CachedKeys
    /\ obs.touched[3] \in CachedKeys

\* the requests of two messages agree on everything the key is made of
SameFingerprint(r1, r2) ==
    /\ r1.question[1].type = r2.question[1].type
    /\ r1.question[1].class = r2.question[1].class
    /\ r1.edns_do = r2.edns_do
    /\ r1.cd = r2.cd
    /\ ToLowerName(r1.question[1].owner) = ToLowerName(r2.question[1].owner)

Dotted(r) == \E i \in 1..Len(r.question[1].owner) : Len(LabelPieces(r.question[1].owner[i])) > 1

\* C18: two requests have the same cache key if and only if they agree on
\* qtype, qclass, DO, CD and on the qname compared without regard to case;
\* the id, RD and the EDNS options other than DO do not change the key.
C18_SameKeyIffSameFingerprint ==
    \A m1 \in inputs, m2 \in inputs :
       get_cache_key(m1.pkt) = get_cache_key(m2.pkt) <=> SameFingerprint(m1.pkt, m2.pkt)

\* the part of C18 about names whose labels hold no dot, and the lookups that
\* follow from it: an entry is found by the requests with its fingerprint
C18_UndottedPart ==
    /\ \A m1 \in inputs, m2 \in inputs :
          (~Dotted(m1.pkt) /\ ~Dotted(m2.pkt))
             => (get_cache_key(m1.pkt) = get_cache_key(m2.pkt)
                   <=> SameFingerprint(m1.pkt, m2.pkt))
    /\ \A m1 \in inputs, m2 \in inputs :
          SameFingerprint(m1.pkt, m2.pkt) => get_cache_key(m1.pkt) = get_cache_key(m2.pkt)

\* the call returns the answer to a question that a rule blocks
BlockedQuery == Returned /\ HasQuestion /\ QnameBlocked

AdblockStyle == QnameRules[1].ip = Nullopt

SomeBlockingIp ==
    \E i \in 1..Len(QnameRules) :
       QnameRules[i].ip # Nullopt /\ QnameRules[i].ip[1] \in BLOCKING_IPS

Mode == settings.blocking_mode

Refused(pkt) == pkt.rcode = "REFUSED" /\ pkt.answer = <<>> /\ pkt.authority = <<>>

\* rcode with one SOA of RETRY 900 in the authority section and no answer
SoaRetry900(pkt, rcode) ==
    /\ pkt.rcode = rcode
    /\ pkt.answer = <<>>
    /\ Len(pkt.authority) = 1
    /\ pkt.authority[1].type = "SOA"
    /\ pkt.authority[1].ttl = settings.blocked_response_ttl_secs
    /\ pkt.authority[1].rdfs[1].retry = 900

\* the custom address of the family of the question
CustomAddress == IF Type = "A" THEN settings.custom_blocking_ipv4 ELSE settings.custom_blocking_ipv6

\* the answer with the custom address in mode CUSTOM_ADDRESS, the SOA response
\* when that address is not configured, and 0.0.0.0 or :: in the other modes
UnspecOrCustom(pkt) ==
    IF Mode = "CUSTOM_ADDRESS" /\ CustomAddress = ""
    THEN SoaRetry900(pkt, "NOERROR")
    ELSE /\ pkt.rcode = "NOERROR"
         /\ Len(pkt.answer) = 1
         /\ pkt.answer[1].type = Type
         /\ pkt.answer[1].owner = hm.request.question[1].owner
         /\ pkt.answer[1].ttl = settings.blocked_response_ttl_secs
         /\ pkt.answer[1].rdfs =
               << IF Mode = "CUSTOM_ADDRESS" THEN CustomAddress
                  ELSE IF Type = "A" THEN "0.0.0.0" ELSE "::" >>
         /\ pkt.authority = <<>>

\* C19: a blocked A or AAAA query whose decisive rule is adblock-style gets
\* REFUSED in modes DEFAULT and REFUSED, NXDOMAIN in mode NXDOMAIN and the
\* unspecified-or-custom address answer in modes UNSPECIFIED_ADDRESS and
\* CUSTOM_ADDRESS; when the decisive rule has an IP and the effective rules
\* hold a blocking IP it gets REFUSED in mode REFUSED, NXDOMAIN in mode
\* NXDOMAIN and the unspecified-or-custom address answer in the other modes.
C19_AddressQueryMatrix ==
    (BlockedQuery /\ Type \in {"A", "AAAA"}) =>
       /\ obs.path = "pre_filter_block"
       /\ Reply.id = hm.request.id
       /\ Reply.question = hm.request.question
       /\ AdblockStyle =>
             CASE Mode \in {"DEFAULT", "REFUSED"} -> Refused(Reply)
               [] Mode = "NXDOMAIN" -> SoaRetry900(Reply, "NXDOMAIN")
               [] Mode \in {"UNSPECIFIED_ADDRESS", "CUSTOM_ADDRESS"} -> UnspecOrCustom(Reply)
       /\ (~AdblockStyle /\ SomeBlockingIp) =>
             CASE Mode = "REFUSED" -> Refused(Reply)
               [] Mode = "NXDOMAIN" -> SoaRetry900(Reply, "NXDOMAIN")
               [] Mode \in {"DEFAULT", "UNSPECIFIED_ADDRESS", "CUSTOM_ADDRESS"} ->
                     UnspecOrCustom(Reply)

\* in mode DEFAULT an AAAA query is answered with :: for a name whose first
\* rule has another address and whose second rule has a blocking one
C19_Witness ==
    /\ BlockedQuery
    /\ Type = "AAAA"
    /\ Mode = "DEFAULT"
    /\ QnameRules[1].ip = Some("10.0.0.2")
    /\ SomeBlockingIp
    /\ Reply.answer[1].rdfs = <<"::">>

\* C20: a blocked query of a type other than A and AAAA whose decisive rule is
\* adblock-style gets REFUSED in modes DEFAULT and REFUSED, NXDOMAIN with
\* exactly one SOA in the authority section (TTL blocked_response_ttl_secs,
\* RETRY 900) in mode NXDOMAIN, and NOERROR with one SOA (RETRY 900) and no
\* answer in modes UNSPECIFIED_ADDRESS and CUSTOM_ADDRESS.
C20_OtherQueryMatrix ==
    (BlockedQuery /\ Type \notin {"A", "AAAA"} /\ AdblockStyle) =>
       /\ obs.path = "pre_filter_block"
       /\ CASE Mode \in {"DEFAULT", "REFUSED"} -> Refused(Reply)
            [] Mode = "NXDOMAIN" -> SoaRetry900(Reply, "NXDOMAIN")
            [] Mode \in {"UNSPECIFIED_ADDRESS", "CUSTOM_ADDRESS"} ->
                  SoaRetry900(Reply, "NOERROR")

\* a TXT query for a name with an adblock-style rule in mode NXDOMAIN
C20_Witness ==
    /\ BlockedQuery
    /\ Type = "TXT"
    /\ AdblockStyle
    /\ Mode = "NXDOMAIN"
    /\ Reply.rcode = "NXDOMAIN"
    /\ Reply.authority[1].ttl = BlockedTtl

\* the first of the effective rules carries an address
HostsStyle == QnameRules[1].ip # Nullopt

\* C21 as stated: a blocked query of a type other than A and AAAA whose
\* decisive rule carries an address gets, in every blocking mode, NOERROR with
\* no answer and one SOA (RETRY 900) in the authority section.
C21_HostsOtherAlwaysSoa ==
    (BlockedQuery /\ Type \notin {"A", "AAAA"} /\ HostsStyle)
       => SoaRetry900(Reply, "NOERROR")

\* C21: a blocked query of a type other than A and AAAA whose decisive rule
\* carries an address gets NOERROR with no answer and one SOA (RETRY 900) in
\* modes DEFAULT, UNSPECIFIED_ADDRESS and CUSTOM_ADDRESS, REFUSED in mode
\* REFUSED, and NXDOMAIN with one SOA (RETRY 900) in mode NXDOMAIN, whether
\* the address is a blocking one or not.
C21_HostsOtherByMode ==
    (BlockedQuery /\ Type \notin {"A", "AAAA"} /\ HostsStyle) =>
       /\ obs.path = "pre_filter_block"
       /\ Reply.id = hm.request.id
       /\ CASE Mode \in {"DEFAULT", "UNSPECIFIED_ADDRESS", "CUSTOM_ADDRESS"} ->
                  SoaRetry900(Reply, "NOERROR")
            [] Mode = "REFUSED" -> Refused(Reply)
            [] Mode = "NXDOMAIN" -> SoaRetry900(Reply, "NXDOMAIN")

\* a TXT query for a name whose rules carry addresses that block nothing, in
\* mode REFUSED
C21_Witness ==
    /\ BlockedQuery
    /\ Type = "TXT"
    /\ HostsStyle
    /\ ~SomeBlockingIp
    /\ Mode = "REFUSED"
    /\ Refused(Reply)

\* the addresses of the effective rules that belong to the family of the
\* question, in the order of the rules
FamilyIps ==
    LET InFamily(ip) == IF Type = "A" THEN is_valid_ip4(ip) ELSE is_valid_ip6(ip)
    IN  SelectSeq(RuleIps(QnameRules), InFamily)

\* the question is A or AAAA and every effective rule carries an address that
\* is not a blocking one
RewrittenQuery ==
    /\ BlockedQuery
    /\ Type \in {"A", "AAAA"}
    /\ HostsStyle
    /\ ~SomeBlockingIp

\* C22: a blocked A or AAAA query decided by hosts-style rules with real
\* addresses gets one answer RR of the type of the query per rule address of
\* the family, in rule order, with TTL blocked_response_ttl_secs; when no rule
\* address is of the family it gets NOERROR with no answer and one SOA
\* (RETRY 900) in the authority section.
C22_OneAnswerPerRuleIp ==
    RewrittenQuery =>
       IF FamilyIps = <<>>
       THEN SoaRetry900(Reply, "NOERROR")
       ELSE /\ Reply.rcode = "NOERROR"
            /\ Len(Reply.answer) = Len(FamilyIps)
            /\ \A i \in 1..Len(Reply.answer) :
                  /\ Reply.answer[i].type = Type
                  /\ Reply.answer[i].ttl = settings.blocked_response_ttl_secs
                  /\ Reply.answer[i].rdfs = <<FamilyIps[i]>>

\* what holds of C22: the addresses of the family are the data fields of one
\* answer RR, in rule order, and a family without address gets the SOA response
C22_AddressesInOneRecord ==
    RewrittenQuery =>
       IF FamilyIps = <<>>
       THEN SoaRetry900(Reply, "NOERROR")
       ELSE /\ Reply.rcode = "NOERROR"
            /\ Len(Reply.answer) = 1
            /\ Reply.answer[1].type = Type
            /\ Reply.answer[1].ttl = settings.blocked_response_ttl_secs
            /\ Reply.answer[1].rdfs = FamilyIps

\* the blocking response of this call is the unspecified-or-custom address
\* answer: an A or AAAA question, and an adblock-style rule in the address
\* modes or a blocking address among the rules in the modes that do not refuse
UnspecOrCustomPath ==
    /\ BlockedQuery
    /\ Type \in {"A", "AAAA"}
    /\ \/ AdblockStyle /\ Mode \in {"UNSPECIFIED_ADDRESS", "CUSTOM_ADDRESS"}
       \/ HostsStyle /\ SomeBlockingIp
             /\ Mode \in {"DEFAULT", "UNSPECIFIED_ADDRESS", "CUSTOM_ADDRESS"}

\* one answer RR for the question with the address addr
OneAddressAnswer(pkt, addr) ==
    /\ pkt.rcode = "NOERROR"
    /\ pkt.answer = <<RR(hm.request.question[1].owner, Type, hm.request.question[1].class,
                         settings.blocked_response_ttl_secs, <<addr>>)>>
    /\ pkt.authority = <<>>

\* C23: the unspecified-or-custom address answer for an A or AAAA query is one
\* answer RR with the custom address of the family of the query in mode
\* CUSTOM_ADDRESS when that address is configured, NOERROR with no answer and
\* one SOA (RETRY 900) in mode CUSTOM_ADDRESS when it is empty, and one answer
\* RR with 0.0.0.0 for A or :: for AAAA in every other mode; the TTL of the
\* answer RR is blocked_response_ttl_secs.
C23_UnspecOrCustomAnswer ==
    UnspecOrCustomPath =>
       /\ Reply.id = hm.request.id
       /\ Reply.question = hm.request.question
       /\ CASE Mode = "CUSTOM_ADDRESS" /\ CustomAddress # "" ->
                  OneAddressAnswer(Reply, CustomAddress)
            [] Mode = "CUSTOM_ADDRESS" /\ CustomAddress = "" ->
                  SoaRetry900(Reply, "NOERROR")
            [] OTHER ->
                  OneAddressAnswer(Reply, IF Type = "A" THEN "0.0.0.0" ELSE "::")
       /\ \A i \in 1..Len(Reply.answer) :
             Reply.answer[i].ttl = settings.blocked_response_ttl_secs

\* mode CUSTOM_ADDRESS with an IPv6 address only: an AAAA query for a name with
\* a blocking address gets the custom address
C23_Witness ==
    /\ UnspecOrCustomPath
    /\ Mode = "CUSTOM_ADDRESS"
    /\ Type = "AAAA"
    /\ HostsStyle
    /\ settings.custom_blocking_ipv4 = ""
    /\ Reply.answer # <<>>
    /\ Reply.answer[1].rdfs = <<"2001:db8::1">>
    /\ Reply.answer[1].ttl = BlockedTtl

\* the exchanges of the auxiliary A query of this call
AuxLog == SelectSeq(obs.xlog, LAMBDA e : e.group = 0)

Dns64Attempted == AuxLog # <<>>

\* the auxiliary exchange brought an A record from which a known prefix
\* makes an address
AuxProducedAaaa ==
    /\ obs.aux[1].error = Nullopt
    /\ \E i \in 1..Len(obs.aux[1].packet.answer), k \in 1..Len(dns64_prefixes) :
          /\ obs.aux[1].packet.answer[i].type = "A"
          /\ synthesize_ipv4_embedded_ipv6_address(
                 dns64_prefixes[k], obs.aux[1].packet.answer[i].rdfs[1]).err = Nullopt

InitReturned == init_call # Nullopt

Requested == init_call[1].settings

InitRet == init_call[1].ret

\* mode CUSTOM_ADDRESS with a custom address that is not empty and not valid
InvalidCustomAddress ==
    /\ Requested.blocking_mode = "CUSTOM_ADDRESS"
    /\ \/ Requested.custom_blocking_ipv4 # "" /\ ~is_valid_ip4(Requested.custom_blocking_ipv4)
       \/ Requested.custom_blocking_ipv6 # "" /\ ~is_valid_ip6(Requested.custom_blocking_ipv6)

\* none of the upstreams and fallbacks of the settings can be created
NoUpstreamCreated ==
    \A i \in 1..Len(Requested.upstreams \o Requested.fallbacks) :
       ~(Requested.upstreams \o Requested.fallbacks)[i].valid

FilterNotCreated == ~filter_create(Requested.filter_params).handle

TornDown ==
    /\ upstreams = <<>>
    /\ fallbacks = <<>>
    /\ ~filter_handle
    /\ response_cache = <<>>

\* C25: init returns (false, reason) when the mode is CUSTOM_ADDRESS and a
\* non-empty custom IPv4 or IPv6 string is invalid, when no primary and no
\* fallback upstream could be created, or when the filter cannot be created;
\* the partial state is then torn down before init returns: no upstreams, no
\* fallbacks, a null filter handle, an empty cache.  After a successful init
\* at least one primary or fallback upstream exists.
C25_InitFailsTornDown ==
    InitReturned =>
       /\ (InvalidCustomAddress \/ NoUpstreamCreated \/ FilterNotCreated)
             => /\ ~InitRet.ok
                /\ InitRet.err # Nullopt
       /\ ~InitRet.ok => TornDown /\ deinit = "done"
       /\ (InitRet.ok /\ deinit = "idle")
             => /\ Len(upstreams) + Len(fallbacks) >= 1
                /\ filter_handle
                /\ settings = Requested

\* init has failed for the filter after upstreams had been created
C25_Witness ==
    /\ InitReturned
    /\ ~InitRet.ok
    /\ FilterNotCreated
    /\ ~NoUpstreamCreated
    /\ ~InvalidCustomAddress
    /\ TornDown

\* the message was parsed and has no question RR
Questionless == hm.request # NoPkt /\ hm.request.question = <<>>

\* C26: a message that parses but has no question RR is answered with a
\* SERVFAIL response carrying the id of the request; one event with a
\* non-empty error string is emitted; no cache lookup and no cache insertion
\* is made, the filter is not asked, no upstream is contacted, and the step
\* that answers leaves the cache, the round trip times and the refresh tasks
\* as they were.
C26_NoQuestionServfail ==
    /\ [](Returned /\ Questionless =>
             /\ Reply # NoPkt
             /\ Reply.rcode = "SERVFAIL"
             /\ Reply.id = hm.message.pkt.id
             /\ Reply.qr
             /\ Len(obs.emitted) = 1
             /\ obs.emitted[1].error # <<>>
             /\ obs.emitted[1].status = "SERVFAIL"
             /\ obs.lookups = 0
             /\ obs.puts = 0
             /\ obs.filter_log = <<>>
             /\ NoUpstreamContacted)
    /\ [][hm.pc = "validate" /\ Questionless =>
             /\ hm'.pc = "done"
             /\ response_cache' = response_cache
             /\ rtt' = rtt
             /\ async_reqs' = async_reqs]_vars

\* a message without a question has been answered
C26_Witness ==
    /\ Returned
    /\ Questionless
    /\ hm.message.pkt.id = 1
    /\ Reply.rcode = "SERVFAIL"
    /\ hm.ret.size = HeaderSize

\* the last call was a lookup that found an entry whose time is over
ExpiredLookup == obs.path = "lookup" /\ hm.cached.response # NoPkt /\ hm.cached.expired

LookupStep == obs'.path = "lookup" /\ now' = now

Entries(cache) == { cache[i] : i \in 1..Len(cache) }

AllTtlsOne(pkt) == \A i \in 1..Len(AllRRs(pkt)) : AllRRs(pkt)[i].ttl = 1

\* the entries of the cache other than the one of key, in the order of the cache
Others(cache, key) == SelectSeq(cache, LAMBDA e : e.key # key)

\* C27 as stated: a lookup that finds an expired entry makes it the most
\* recently used entry, the last candidate for eviction; the response has
\* every TTL set to 1, expired is true and the entry stays in the cache.
C27_ExpiredBecomesMostRecent ==
    ExpiredLookup =>
       /\ response_cache[1].key = hm.cache_key
       /\ AllTtlsOne(hm.cached.response)
       /\ hm.cache_key \in CachedKeys

\* C27, amended: a lookup that finds an expired entry makes it the least
\* recently used entry, the first candidate for eviction; the response has
\* every TTL set to 1, expired is true, and the entry stays in the cache: the
\* lookup leaves the entries and the order of the other entries as they were.
C27_ExpiredBecomesLeastRecent ==
    /\ [](ExpiredLookup =>
             /\ response_cache[Len(response_cache)].key = hm.cache_key
             /\ AllTtlsOne(hm.cached.response)
             /\ hm.cache_key \in CachedKeys)
    /\ [][LookupStep /\ hm'.cached.response # NoPkt /\ hm'.cached.expired =>
             /\ Entries(response_cache') = Entries(response_cache)
             /\ Len(response_cache') = Len(response_cache)
             /\ Others(response_cache', hm'.cache_key) = Others(response_cache, hm'.cache_key)
             /\ CeilSeconds(EntryFor(hm'.cache_key).expires_at - now) <= 0]_vars
    /\ [][LookupStep /\ hm'.cached.response # NoPkt /\ ~hm'.cached.expired =>
             /\ response_cache'[1].key = hm'.cache_key
             /\ CeilSeconds(EntryFor(hm'.cache_key).expires_at - now) > 0]_vars

\* an expired entry of a cache of two entries, stored with a TTL other than
\* 1 on one of its records, has been looked up and is now the last one
C27_Witness ==
    /\ ExpiredLookup
    /\ Len(response_cache) = 2
    /\ response_cache[2].key = hm.cache_key
    /\ \E i \in 1..Len(AllRRs(EntryFor(hm.cache_key).response)) :
          AllRRs(EntryFor(hm.cache_key).response)[i].ttl # 1

\* the lookup of the call found an entry whose time is over while the
\* optimistic cache is disabled
StaleFound ==
    /\ hm.pc \notin {"idle", "validate", "cache_lookup"}
    /\ hm.cached.response # NoPkt
    /\ hm.cached.expired
    /\ ~settings.optimistic_cache

PipelinePaths ==
    {"canary", "ipv6_block", "pre_filter_block", "post_filter_block", "forwarded",
     "upstream_failure"}

\* C28: with optimistic_cache disabled an expired cache entry is never
\* returned to the client: handle_message goes on as after a miss, queues no
\* refresh task, and runs the rest of the pipeline (canary, filter, upstream
\* exchange); the call does not end as a cache hit and every event it emits
\* has cache_hit = false.
C28_ExpiredIsMissWhenNotOptimistic ==
    /\ [](StaleFound =>
             /\ obs.path # "cache_hit"
             /\ async_reqs = {}
             /\ hm.req_holder
             /\ \A i \in 1..Len(obs.emitted) : ~obs.emitted[i].cache_hit
             /\ Returned =>
                   /\ obs.path \in PipelinePaths
                   /\ obs.path # "canary" => obs.filter_log # <<>>
                   /\ obs.path \in {"forwarded", "upstream_failure"} => ~NoUpstreamContacted
                   /\ obs.path = "forwarded" => Reply = hm.response)
    /\ [][hm.pc = "cached" /\ StaleFound =>
             /\ hm'.pc = "canary"
             /\ async_reqs' = async_reqs]_vars

\* an expired entry was found with the optimistic cache disabled and the
\* answer was fetched from an upstream
C28_Witness ==
    /\ Returned
    /\ StaleFound
    /\ obs.path = "forwarded"
    /\ ~NoUpstreamContacted
    /\ Len(obs.emitted) = 1
    /\ ~obs.emitted[1].cache_hit

\* the response the upstream gave to the request of this call
UpstreamAnswer == obs.upstream_response.answer

\* an answer RR the post-filter has a hostname for: the target of a CNAME,
\* without the trailing dot, or the text of an A or AAAA address
Filterable(rr) ==
    /\ rr.rdfs # <<>>
    /\ \/ rr.type = "CNAME"
       \/ rr.type \in {"A", "AAAA"} /\ (is_valid_ip4(rr.rdfs[1]) \/ is_valid_ip6(rr.rdfs[1]))

HostOf(rr) ==
    IF rr.type = "CNAME" THEN [labels |-> rr.rdfs[1], dot |-> FALSE]
                         ELSE [labels |-> <<rr.rdfs[1]>>, dot |-> FALSE]

\* the effective rules after the pre-filter and the answer RRs 1..k
RECURSIVE EffectiveAt(_)
EffectiveAt(k) ==
    IF k = 0 THEN QnameRules
    ELSE IF Filterable(UpstreamAnswer[k])
    THEN get_effective_rules(filter_match(HostOf(UpstreamAnswer[k])) \o EffectiveAt(k - 1))
    ELSE EffectiveAt(k - 1)

BlockingAt(k) ==
    /\ Filterable(UpstreamAnswer[k])
    /\ EffectiveAt(k) # <<>>
    /\ ~EffectiveAt(k)[1].exception

\* the first answer RR whose effective rules are blocking, 0 if there is none
FirstBlocking ==
    IF \E k \in 1..Len(UpstreamAnswer) : BlockingAt(k)
    THEN CHOOSE k \in 1..Len(UpstreamAnswer) :
            BlockingAt(k) /\ \A j \in 1..(k - 1) : ~BlockingAt(j)
    ELSE 0

\* the hostnames of the answer RRs 1..n, in the order of the answer
RECURSIVE HostsUpTo(_)
HostsUpTo(n) ==
    IF n = 0 THEN <<>>
    ELSE HostsUpTo(n - 1)
         \o (IF Filterable(UpstreamAnswer[n]) THEN <<HostOf(UpstreamAnswer[n])>> ELSE <<>>)

UpstreamAnswered == Returned /\ obs.upstream_response # NoPkt

\* C29: the post-filter runs only when the upstream response has rcode
\* NOERROR; it visits the answer RRs in order, matching each CNAME target
\* (trailing dot stripped) and each A/AAAA address against the filter, and at
\* the first RR whose effective rules are blocking it returns the blocking
\* response, emits the event with original_answer set to the answer of the
\* upstream, performs no DNS64 synthesis and inserts nothing into the cache.
\* With another rcode the filter is not consulted again.
C29_PostFilterFirstBlockingRR ==
    UpstreamAnswered =>
       IF obs.upstream_response.rcode # "NOERROR"
       THEN /\ obs.filter_log = <<pure_domain>>
            /\ obs.path = "forwarded"
            /\ Reply = obs.upstream_response
       ELSE IF FirstBlocking > 0
       THEN /\ obs.filter_log = <<pure_domain>> \o HostsUpTo(FirstBlocking)
            /\ obs.path = "post_filter_block"
            /\ Reply = create_blocking_response(hm.request, settings,
                                                EffectiveAt(FirstBlocking))
            /\ Len(obs.emitted) = 1
            /\ obs.emitted[1].original_answer = rr_list_to_string(UpstreamAnswer)
            /\ obs.emitted[1].status = Reply.rcode
            /\ obs.aux = Nullopt
            /\ obs.puts = 0
            /\ CacheIndex(response_cache, hm.cache_key) = 0
       ELSE /\ obs.filter_log = <<pure_domain>> \o HostsUpTo(Len(UpstreamAnswer))
            /\ obs.path = "forwarded"
            /\ obs.puts = 1

\* the answer was blocked for its fourth RR, an address, after a CNAME, a TXT
\* record and an address that no rule blocks, with DNS64 ready for the question
C29_Witness ==
    /\ UpstreamAnswered
    /\ obs.path = "post_filter_block"
    /\ FirstBlocking = 4
    /\ Len(obs.filter_log) = 4
    /\ obs.emitted[1].original_answer = rr_list_to_string(UpstreamAnswer)
    /\ Type = "AAAA"
    /\ settings.dns64 # Nullopt
    /\ dns64_prefixes # <<>>

\* the effective rules of the filter stages of this call: stage j is the
\* j-th hostname given to the filter, together with the effective rules of
\* the stage before it
RECURSIVE StageRules(_)
StageRules(j) ==
    IF j = 0 THEN <<>>
    ELSE get_effective_rules(filter_match(obs.filter_log[j]) \o StageRules(j - 1))

Stages == 1..Len(obs.filter_log)

Texts(rules) == { rules[i].text : i \in 1..Len(rules) }

\* the first stage whose effective rules hold the rule text
FirstStage(text) ==
    CHOOSE j \in Stages :
       /\ text \in Texts(StageRules(j))
       /\ \A k \in 1..(j - 1) : text \notin Texts(StageRules(k))

\* the place of the rule text in the effective rules of its first stage
PlaceInStage(text) ==
    CHOOSE i \in 1..Len(StageRules(FirstStage(text))) :
       StageRules(FirstStage(text))[i].text = text

FilterIdOf(text) == (CHOOSE i \in 1..Len(RuleTable) : RuleTable[i].text = text)

\* the last stage whose effective rules are not empty, 0 if there is none
LastNonEmptyStage ==
    IF \E j \in Stages : StageRules(j) # <<>>
    THEN CHOOSE j \in Stages :
            StageRules(j) # <<>> /\ \A k \in Stages : k > j => StageRules(k) = <<>>
    ELSE 0

\* the event of a call that has asked the filter
FilteredEvent == obs.emitted[1]

Filtered == Returned /\ obs.filter_log # <<>> /\ Len(obs.emitted) = 1

\* what C30 and its amended form agree on: the rule texts of the event are
\* the rules the stages applied, without duplicates; the filter ids have the
\* same length and entry i is the id of the list of rule i; the whitelist
\* flag tells whether element 0 of the most recent non-empty effective rules
\* is an exception
RulesIdsAndFlag ==
    /\ \A i \in 1..Len(FilteredEvent.rules), k \in 1..Len(FilteredEvent.rules) :
          FilteredEvent.rules[i] = FilteredEvent.rules[k] => i = k
    /\ { FilteredEvent.rules[i] : i \in 1..Len(FilteredEvent.rules) }
          = UNION { Texts(StageRules(j)) : j \in Stages }
    /\ Len(FilteredEvent.filter_list_ids) = Len(FilteredEvent.rules)
    /\ \A i \in 1..Len(FilteredEvent.rules) :
          FilteredEvent.filter_list_ids[i]
             = RuleTable[FilterIdOf(FilteredEvent.rules[i])].filter_id
    /\ FilteredEvent.whitelist
          = (LastNonEmptyStage > 0 /\ StageRules(LastNonEmptyStage)[1].exception)

\* C30 as stated: after the filter stages of a request the rule texts of the
\* event hold no duplicates and are in insertion order, the rules applied by
\* an earlier stage before the rules first applied by a later stage; the
\* filter ids have the same length with entry i belonging to rule i; the
\* whitelist flag equals whether element 0 of the most recent non-empty
\* effective rules carries EXCEPTION.
C30_EarlierStagesFirst ==
    Filtered =>
       /\ RulesIdsAndFlag
       /\ \A i \in 1..Len(FilteredEvent.rules), k \in 1..Len(FilteredEvent.rules) :
             i < k => FirstStage(FilteredEvent.rules[i]) <= FirstStage(FilteredEvent.rules[k])

\* C30, amended: as C30, but the rules first applied by a later stage come
\* before the rules applied by an earlier stage, and the rules first applied
\* by one stage are in the order of the effective rules of that stage.
C30_LaterStagesFirst ==
    Filtered =>
       /\ RulesIdsAndFlag
       /\ \A i \in 1..Len(FilteredEvent.rules), k \in 1..Len(FilteredEvent.rules) :
             i < k =>
                \/ FirstStage(FilteredEvent.rules[i]) > FirstStage(FilteredEvent.rules[k])
                \/ /\ FirstStage(FilteredEvent.rules[i]) = FirstStage(FilteredEvent.rules[k])
                   /\ PlaceInStage(FilteredEvent.rules[i]) < PlaceInStage(FilteredEvent.rules[k])

\* the pre-filter applied one exception and the post-filter, for a CNAME
\* target, another one: the event holds both, the later one first
C30_Witness ==
    /\ Filtered
    /\ Len(FilteredEvent.rules) = 2
    /\ FirstStage(FilteredEvent.rules[1]) = 2
    /\ FirstStage(FilteredEvent.rules[2]) = 1
    /\ FilteredEvent.filter_list_ids = <<1, 2>>
    /\ FilteredEvent.whitelist

\* the answer of the auxiliary A response and the prefixes RFC 6052 allows
AuxAnswer == obs.aux[1].packet.answer

UsablePrefixes == SelectSeq(dns64_prefixes, LAMBDA pref : pref.len \in {4, 5, 6, 7, 8, 12})

\* the number of RRs the synthesized list holds for the RRs 1..n of AuxAnswer
RECURSIVE ListedBefore(_)
ListedBefore(n) ==
    IF n = 0 THEN 0
    ELSE ListedBefore(n - 1)
         + (IF AuxAnswer[n].type = "A" THEN Len(UsablePrefixes) ELSE 1)

SynthesizedCount == CountType(AuxAnswer, "A") * Len(UsablePrefixes)

\* list is the synthesized list for AuxAnswer: in the order of the answer, a
\* copy of each RR that is not an A RR and, for each A RR, one AAAA RR per
\* usable prefix, in the order of the prefixes, with the owner, class and TTL
\* of the A RR
IsSynthesizedList(list) ==
    /\ Len(list) = ListedBefore(Len(AuxAnswer))
    /\ \A n \in 1..Len(AuxAnswer) :
          IF AuxAnswer[n].type # "A"
          THEN list[ListedBefore(n - 1) + 1] = AuxAnswer[n]
          ELSE \A k \in 1..Len(UsablePrefixes) :
                  list[ListedBefore(n - 1) + k]
                     = [AuxAnswer[n] EXCEPT
                          !.type = "AAAA",
                          !.rdfs = <<synthesize_ipv4_embedded_ipv6_address(
                                        UsablePrefixes[k], AuxAnswer[n].rdfs[1]).ip6>>]

\* the auxiliary A query of a DNS64 synthesis was answered
AuxAnswered ==
    /\ hm.pc \in {"finish", "done"}
    /\ obs.aux # Nullopt
    /\ obs.aux[1].error = Nullopt

\* C31: the DNS64 synthesized answer list is built from the auxiliary A
\* response in its answer order: every non-A RR is copied unchanged, and every
\* A RR is replaced by one AAAA RR for each known prefix for which RFC 6052
\* synthesis succeeds (prefixes that fail are skipped); if at least one AAAA
\* was produced the response carries the id, RD and question of the request,
\* RA and CD of the A response and QR=1, otherwise nothing is returned and
\* the response of the upstream stays.
C31_SynthesizedList ==
    AuxAnswered =>
       IF SynthesizedCount >= 1
       THEN /\ IsSynthesizedList(hm.response.answer)
            /\ hm.response.id = hm.request.id
            /\ hm.response.rd = hm.request.rd
            /\ hm.response.question = hm.request.question
            /\ hm.response.ra = obs.aux[1].packet.ra
            /\ hm.response.cd = obs.aux[1].packet.cd
            /\ hm.response.qr
            /\ hm.response.authority = <<>>
            /\ hm.response.additional = <<>>
       ELSE hm.response = obs.upstream_response

\* a synthesis from an answer with a CNAME and an A record, with an unusable
\* prefix before a usable one, for an A response whose id is not the id of
\* the request
C31_Witness ==
    /\ AuxAnswered
    /\ Len(dns64_prefixes) = 2
    /\ Len(UsablePrefixes) = 1
    /\ Len(AuxAnswer) = 2
    /\ AuxAnswer[1].type = "CNAME"
    /\ hm.response.answer[1] = AuxAnswer[1]
    /\ hm.response.answer[2].type = "AAAA"
    /\ hm.response.answer[2].rdfs = <<"2001:db8:64::101:101">>
    /\ obs.aux[1].packet.id # hm.request.id

\* two prefixes have made two AAAA records of one A record
C31_WitnessTwoPrefixes ==
    /\ AuxAnswered
    /\ Len(UsablePrefixes) = 2
    /\ Len(hm.response.answer) = 2 * Len(AuxAnswer)

\* the upstream it brought prefixes
Found(it) == it.outcome.err = Nullopt /\ it.outcome.result # <<>>

Rounds == discovery.tried

\* the round tried the discovery upstreams in the configured order and ended
\* at the first one that brought prefixes
InOrderUntilFound(round) ==
    /\ Len(round) <= Len(settings.dns64[1].upstreams)
    /\ \A i \in 1..Len(round) : round[i].upstream = settings.dns64[1].upstreams[i]
    /\ \A i \in 1..(Len(round) - 1) : ~Found(round[i])
    /\ ~Found(round[Len(round)]) => Len(round) = Len(settings.dns64[1].upstreams)

C32_WitnessFailed ==
    /\ settings.dns64 # Nullopt
    /\ discovery.left = 0
    /\ dns64_prefixes = <<>>
    /\ Returned
    /\ Type = "AAAA"
    /\ obs.path = "forwarded"
-----------------------------------------------------------------------------
(* The threads at the level of their locks.  handle_message is called by    *)
(* two threads at once; the work queue runs async_request_worker on a pool  *)
(* thread and async_request_finalizer on the loop thread; init started the  *)
(* discovery thread; the owner calls deinit.  Every acquisition of a mutex  *)
(* is a step of its own, the code run under the mutex is the next step of   *)
(* the thread, and the mutex is released with it.                           *)

ASYNC_REQS_MTX == "async_reqs_mtx"
CACHE_MTX == "response_cache.mtx"
PREFIXES_MTX == "dns64_prefixes.mtx"

\* std::unique_lock, std::scoped_lock, std::mutex::lock
Unique(mtx) == [mtx |-> mtx, shared |-> FALSE]
\* std::shared_lock
Shared(mtx) == [mtx |-> mtx, shared |-> TRUE]

Holders(mtx) == { t \in Threads : \E l \in threads.held[t] : l.mtx = mtx }

\* an exclusive acquisition returns when no thread holds the mutex
CanLock(mtx) == Holders(mtx) = {}

\* a shared acquisition returns when no thread holds the mutex exclusively
CanLockShared(mtx) == \A t \in Threads : Unique(mtx) \notin threads.held[t]

\* variant: the shared lock of the lookup is kept after the lookup
LookupScopeOpen(held) == held

\* lines 777-800: the block of create_response_from_cache that the shared
\* lock lives in ends before the response is patched
LookupScope(held) == held \ {Shared(CACHE_MTX)}

\* what the steps of the threads leave as it is
poolVars == <<upstreams, fallbacks, filter_handle, init_call, inputs, network, rtt,
              hm, ux, obs>>

\* upstreams whose answers expire soon, carry an address that a rule blocks,
\* or carry none, or that do not answer in time; one DNS64 prefix to discover
Hostile == [errors |-> {TIMEOUT_STR}, kinds |-> {"shortlived", "address", "nodata"},
            latencies |-> {1}, prefixes |-> { <<PREFIX_WKP>> }]

\* the orders a list can be left in when two threads splice it at once
RECURSIVE Orders(_)
Orders(cache) ==
    IF cache = <<>> THEN { <<>> }
    ELSE UNION { { <<cache[i]>> \o rest : rest \in Orders(RemoveAt(cache, i)) } :
                 i \in 1..Len(cache) }

\* the cache lock is held by a thread other than t
CacheShared(t) == \E u \in Threads \ {t} : \E l \in threads.held[u] : l.mtx = CACHE_MTX

\* the messages a thread calls handle_message with: the first thread has
\* all of them, the second one those with an A question
Asks(t) ==
    IF t = "client1" THEN inputs
    ELSE { message \in inputs : message.pkt.question[1].type = "A" }

\* the time up to which the clock is followed while the threads run
ThreadsMaxTime == 2

\* lines 905-937: a thread calls handle_message with a message that parses
\* and has a question; the fingerprint is computed
ClientCall(t) ==
    /\ threads.at[t] = "idle"
    /\ threads.at["deinit"] = "idle"
    /\ \E message \in Asks(t) :
          LET request == ldns_wire2pkt(message).pkt
          IN  threads' = [threads EXCEPT
                             !.at[t] = "lookup",
                             !.call[t] = [IdleCall EXCEPT !.request = request,
                                             !.cache_key = get_cache_key(request)]]
    /\ UNCHANGED <<poolVars, settings, dns64_prefixes, discovery, response_cache, taskVars, now>>

\* lines 768-779: create_response_from_cache returns at once for a request
\* with unsupported extensions, and takes the shared lock otherwise
ClientLookupLock(t) ==
    /\ threads.at[t] = "lookup"
    /\ IF settings.dns_cache_size = 0 \/ has_unsupported_extensions(threads.call[t].request)
       THEN threads' = [threads EXCEPT !.at[t] = "miss"]
       ELSE /\ CanLockShared(CACHE_MTX)
            /\ threads' = [threads EXCEPT !.at[t] = "get",
                                          !.held[t] = @ \cup {Shared(CACHE_MTX)}]
    /\ UNCHANGED <<poolVars, settings, dns64_prefixes, discovery, response_cache, taskVars, now>>

\* lines 780-800 and 939-943: cache.get and cache.make_lru under the shared
\* lock.  Both relink the list of the cache; when another thread is inside
\* the cache as well, the list is left in any order
ClientLookup(t) ==
    /\ threads.at[t] = "get"
    /\ LET call == threads.call[t]
           res == create_response_from_cache(response_cache, settings, call.cache_key,
                                             call.request, now)
           raced == res.cache # response_cache /\ CacheShared(t)
           served == res.r.response # NoPkt
                        /\ ~(res.r.expired /\ ~settings.optimistic_cache)
       IN  /\ response_cache' \in IF raced THEN Orders(res.cache) ELSE {res.cache}
           /\ threads' = [threads EXCEPT
                             !.at[t] = IF ~served THEN "miss"
                                       ELSE IF res.r.expired THEN "registry" ELSE "reply",
                             !.held[t] = LookupScope(@),
                             !.call[t].cached = res.r]
    /\ UNCHANGED <<poolVars, settings, dns64_prefixes, discovery, taskVars, now>>

\* line 944: the registry lock, for an expired entry in optimistic mode
ClientEmplaceLock(t) ==
    /\ threads.at[t] = "registry"
    /\ CanLock(ASYNC_REQS_MTX)
    /\ threads' = [threads EXCEPT !.at[t] = "emplace",
                                  !.held[t] = @ \cup {Unique(ASYNC_REQS_MTX)}]
    /\ UNCHANGED <<poolVars, settings, dns64_prefixes, discovery, response_cache, taskVars, now>>

\* lines 945-955: the task is emplaced and queued, the request is moved into
\* it, and the block of the lock ends
ClientEmplace(t) ==
    /\ threads.at[t] = "emplace"
    /\ LET call == threads.call[t]
           emplaced == Emplaced(async_reqs, call.cache_key)
       IN  /\ async_reqs' = IF emplaced
                            THEN async_reqs \cup {[cache_key |-> call.cache_key,
                                                   request |-> call.request,
                                                   state |-> "queued", owner |-> t]}
                            ELSE async_reqs
           /\ threads' = [threads EXCEPT !.at[t] = "reply",
                                         !.held[t] = @ \ {Unique(ASYNC_REQS_MTX)},
                                         !.call[t].moved = emplaced]
    /\ UNCHANGED <<poolVars, settings, dns64_prefixes, discovery, response_cache, refreshed,
                   deinit, now>>

\* the request of the call of t was moved into a task whose record is gone
RequestFreed(t) ==
    /\ threads.call[t].moved
    /\ ~\E task \in async_reqs : task.owner = t /\ task.cache_key = threads.call[t].cache_key

\* lines 956-960: the cached response is serialized and the event is
\* finalized, which reads the request through the raw pointer.  What is read
\* goes into the event only, which this view of the call does not hold
ClientReply(t) ==
    /\ threads.at[t] = "reply"
    /\ threads' = [threads EXCEPT !.at[t] = "idle", !.call[t] = IdleCall]
    /\ UNCHANGED <<poolVars, settings, dns64_prefixes, discovery, response_cache, taskVars, now>>

\* lines 1034-1042
WantsDns64(request, response) ==
    /\ settings.dns64 # Nullopt
    /\ request.question[1].type = "AAAA"
    /\ CountType(response.answer, "AAAA") = 0

\* lines 1012-1046: after the exchange the call returns the blocking reply
\* of the post-filter, tries DNS64, or goes on to its end
ClientAnswered(t, response, rules) ==
    LET call == threads.call[t]
        f == PostFilterFrom(1, call.request, response, NewEvent, rules, settings, <<>>)
        to == IF response.rcode # "NOERROR" THEN "put"
              ELSE IF f.raw # Nullopt THEN "idle"
              ELSE IF WantsDns64(call.request, response) THEN "dns64"
              ELSE "put"
    IN  threads' = [threads EXCEPT
                       !.at[t] = to,
                       !.call[t] = IF to = "idle" THEN IdleCall
                                   ELSE [call EXCEPT !.response = response,
                                                     !.upstream_id = Some(upstreams[1])]]

\* lines 963-1031: the name is filtered, the dispatcher is called, and the
\* answer is filtered; neither the canary nor the IPv6 block applies to the
\* questions asked
ClientExchange(t) ==
    /\ threads.at[t] = "miss"
    /\ LET request == threads.call[t].request
           pre == apply_filter(DropTrailingDot(ldns_rdf2str(request.question[1].owner)),
                               request, NoPkt, NewEvent, <<>>, settings, TRUE)
       IN  IF pre.raw # Nullopt
           THEN threads' = [threads EXCEPT !.at[t] = "idle", !.call[t] = IdleCall]
           ELSE \E result \in ExchangeResults(request, network) :
                   IF result.error # Nullopt
                   THEN threads' = [threads EXCEPT !.at[t] = "idle", !.call[t] = IdleCall]
                   ELSE ClientAnswered(t, result.packet, pre.rules)
    /\ UNCHANGED <<poolVars, settings, dns64_prefixes, discovery, response_cache, taskVars, now>>

\* line 458: try_dns64_aaaa_synthesis takes the lock of the prefixes
ClientDns64Lock(t) ==
    /\ threads.at[t] = "dns64"
    /\ CanLock(PREFIXES_MTX)
    /\ threads' = [threads EXCEPT !.at[t] = "synthesis",
                                  !.held[t] = @ \cup {Unique(PREFIXES_MTX)}]
    /\ UNCHANGED <<poolVars, settings, dns64_prefixes, discovery, response_cache, taskVars, now>>

\* lines 460-548: the auxiliary exchange and the synthesis, under the lock
ClientDns64(t) ==
    /\ threads.at[t] = "synthesis"
    /\ LET call == threads.call[t]
       IN  \E id \in RequestIds :
           \E result_a \in ExchangeResults(Dns64RequestA(call.request, id), network) :
              LET synth_response == IF dns64_prefixes = <<>> THEN NoPkt
                                    ELSE Dns64Synthesize(call.request, result_a,
                                                         dns64_prefixes)
              IN  threads' = [threads EXCEPT
                                 !.at[t] = "put",
                                 !.held[t] = @ \ {Unique(PREFIXES_MTX)},
                                 !.call[t].response = IF synth_response # NoPkt
                                                      THEN synth_response ELSE @]
    /\ UNCHANGED <<poolVars, settings, dns64_prefixes, discovery, response_cache, taskVars, now>>

\* lines 847-900: put_response_into_cache takes the lock when the response
\* can be cached
TakesCacheLock(response) == settings.dns_cache_size # 0 /\ CacheableResponse(response)

\* lines 1051-1056 and 847-900: the reply is serialized, the event finalized,
\* and put_response_into_cache returns or takes the exclusive lock
ClientPutLock(t) ==
    /\ threads.at[t] = "put"
    /\ IF ~TakesCacheLock(threads.call[t].response)
       THEN threads' = [threads EXCEPT !.at[t] = "idle", !.call[t] = IdleCall]
       ELSE /\ CanLock(CACHE_MTX)
            /\ threads' = [threads EXCEPT !.at[t] = "insert",
                                          !.held[t] = @ \cup {Unique(CACHE_MTX)}]
    /\ UNCHANGED <<poolVars, settings, dns64_prefixes, discovery, response_cache, taskVars, now>>

\* lines 901-902: the insertion
ClientInsert(t) ==
    /\ threads.at[t] = "insert"
    /\ LET call == threads.call[t]
       IN  response_cache' = put_response_into_cache(response_cache, settings, call.cache_key,
                                                     call.response, call.upstream_id, now)
    /\ threads' = [threads EXCEPT !.at[t] = "idle", !.held[t] = @ \ {Unique(CACHE_MTX)},
                                  !.call[t] = IdleCall]
    /\ UNCHANGED <<poolVars, settings, dns64_prefixes, discovery, taskVars, now>>

\* the record of the task with the key in the registry, if there is one
TaskOf(key) == { task \in async_reqs : task.cache_key = key }

\* lines 1187-1192: a pool thread starts a queued task
WorkerTake ==
    /\ threads.at["worker"] = "idle"
    /\ \E task \in async_reqs :
          /\ task.state = "queued"
          /\ async_reqs' = SetState(async_reqs, task, "running")
          /\ threads' = [threads EXCEPT !.at["worker"] = "exchange",
                                        !.work["worker"] = Some(task.cache_key)]
    /\ UNCHANGED <<poolVars, settings, dns64_prefixes, discovery, response_cache, refreshed,
                   deinit, now>>

\* lines 1194-1202: the dispatcher returns; the worker is done when the
\* response cannot be cached, and needs the cache lock otherwise
WorkerExchange ==
    /\ threads.at["worker"] = "exchange"
    /\ \E task \in TaskOf(threads.work["worker"][1]) :
       \E result \in ExchangeResults(task.request, network) :
          LET ret == [response |-> result.packet, error |-> result.error,
                      upstream |-> Some(upstreams[1])]
              done == ret.response # NoPkt /\ ~TakesCacheLock(ret.response)
          IN  /\ threads' = [threads EXCEPT
                                !.at["worker"] = IF done THEN "idle" ELSE "lock",
                                !.work["worker"] = IF done THEN Nullopt ELSE @,
                                !.ret = IF done THEN @ ELSE ret]
              /\ async_reqs' = IF done THEN SetState(async_reqs, task, "put") ELSE async_reqs
    /\ UNCHANGED <<poolVars, settings, dns64_prefixes, discovery, response_cache, refreshed,
                   deinit, now>>

\* lines 1198 and 900: the exclusive lock of the cache
WorkerLock ==
    /\ threads.at["worker"] = "lock"
    /\ CanLock(CACHE_MTX)
    /\ threads' = [threads EXCEPT !.at["worker"] = "store",
                                  !.held["worker"] = @ \cup {Unique(CACHE_MTX)}]
    /\ UNCHANGED <<poolVars, settings, dns64_prefixes, discovery, response_cache, taskVars, now>>

\* lines 1199 and 901-902: the entry of the key is erased after a failure,
\* the response is inserted after an answer; the work is done
WorkerStore ==
    /\ threads.at["worker"] = "store"
    /\ LET key == threads.work["worker"][1]
           ret == threads.ret
       IN  /\ response_cache' =
                 IF ret.response = NoPkt THEN lru_erase(response_cache, key)
                 ELSE put_response_into_cache(response_cache, settings, key, ret.response,
                                              ret.upstream, now)
           /\ \E task \in TaskOf(key) :
                 async_reqs' = SetState(async_reqs, task,
                                        IF ret.response = NoPkt THEN "erased" ELSE "put")
    /\ threads' = [threads EXCEPT !.at["worker"] = "idle",
                                  !.held["worker"] = @ \ {Unique(CACHE_MTX)},
                                  !.work["worker"] = Nullopt,
                                  !.ret = IdleThreads.ret]
    /\ UNCHANGED <<poolVars, settings, dns64_prefixes, discovery, refreshed, deinit, now>>

\* the keys a read of the key of a task record gives: the key, or for a
\* freed record whatever the memory holds by then
KeysRead(task, freed) ==
    IF freed THEN {task.cache_key, <<>>} ELSE {task.cache_key}

\* lines 1206-1210: the loop thread calls the finalizer of a task whose work
\* is done, or was cancelled; the finalizer reads the record and takes the
\* registry lock
FinalizerLock ==
    /\ threads.at["loop"] = "idle"
    /\ CanLock(ASYNC_REQS_MTX)
    /\ \E freed \in BOOLEAN :
       \E task \in IF freed THEN threads.cancelled
                   ELSE { task \in async_reqs : task.state \in {"put", "erased"} } :
       \E key \in KeysRead(task, freed) :
          threads' = [threads EXCEPT
                         !.at["loop"] = "erase",
                         !.held["loop"] = @ \cup {Unique(ASYNC_REQS_MTX)},
                         !.work["loop"] = Some([key |-> key, freed |-> freed]),
                         !.cancelled = @ \ {task}]
    /\ UNCHANGED <<poolVars, settings, dns64_prefixes, discovery, response_cache, taskVars, now>>

\* lines 1211-1213: the record of the key is erased, which frees the request
\* it holds; the lock is released and the waiters are notified
FinalizerErase ==
    /\ threads.at["loop"] = "erase"
    /\ async_reqs' = EraseTask(async_reqs, threads.work["loop"][1].key)
    /\ threads' = [threads EXCEPT !.at["loop"] = "idle",
                                  !.held["loop"] = @ \ {Unique(ASYNC_REQS_MTX)},
                                  !.work["loop"] = Nullopt]
    /\ UNCHANGED <<poolVars, settings, dns64_prefixes, discovery, response_cache, refreshed,
                   deinit, now>>

\* line 712: deinit, called when no handle_message call is in progress,
\* takes the registry lock
DeinitLock ==
    /\ threads.at["deinit"] = "idle"
    /\ \A t \in ClientThreads : threads.at[t] = "idle"
    /\ CanLock(ASYNC_REQS_MTX)
    /\ threads' = [threads EXCEPT !.at["deinit"] = "cancel",
                                  !.held["deinit"] = @ \cup {Unique(ASYNC_REQS_MTX)}]
    /\ UNCHANGED <<poolVars, settings, dns64_prefixes, discovery, response_cache, taskVars, now>>

\* lines 713-725: the records of the tasks whose work could be cancelled
\* are erased; the work queue still calls their finalizer.  The wait
\* releases the lock
DeinitCancelQueued ==
    /\ threads.at["deinit"] = "cancel"
    /\ async_reqs' = { task \in async_reqs : ~Cancellable(task) }
    /\ deinit' = "waiting"
    /\ threads' = [threads EXCEPT !.at["deinit"] = "wait",
                                  !.held["deinit"] = @ \ {Unique(ASYNC_REQS_MTX)},
                                  !.cancelled = { task \in async_reqs : Cancellable(task) }]
    /\ UNCHANGED <<poolVars, settings, dns64_prefixes, discovery, response_cache, refreshed, now>>

\* lines 723-741: the wait returns with the lock when the registry is empty,
\* the block of the lock ends, and upstreams and filter are destroyed
DeinitWake ==
    /\ threads.at["deinit"] = "wait"
    /\ Drained(async_reqs)
    /\ CanLock(ASYNC_REQS_MTX)
    /\ settings' = NoSettings
    /\ upstreams' = <<>>
    /\ fallbacks' = <<>>
    /\ filter_handle' = FALSE
    /\ threads' = [threads EXCEPT !.at["deinit"] = "clear"]
    /\ UNCHANGED <<init_call, inputs, network, rtt, hm, ux, obs, dns64_prefixes, discovery,
                   response_cache, taskVars, now>>

\* line 746: the exclusive lock of the cache
DeinitClearLock ==
    /\ threads.at["deinit"] = "clear"
    /\ CanLock(CACHE_MTX)
    /\ threads' = [threads EXCEPT !.at["deinit"] = "clearing",
                                  !.held["deinit"] = @ \cup {Unique(CACHE_MTX)}]
    /\ UNCHANGED <<poolVars, settings, dns64_prefixes, discovery, response_cache, taskVars, now>>

\* lines 747-751: the cache is cleared and deinit returns
DeinitClear ==
    /\ threads.at["deinit"] = "clearing"
    /\ response_cache' = <<>>
    /\ deinit' = "done"
    /\ threads' = [threads EXCEPT !.at["deinit"] = "done",
                                  !.held["deinit"] = @ \ {Unique(CACHE_MTX)}]
    /\ UNCHANGED <<poolVars, settings, dns64_prefixes, discovery, async_reqs, refreshed, now>>

\* lines 663-680: a round of the discovery thread, without any lock
DiscoveryTry ==
    /\ threads.at["discovery"] = "idle"
    /\ discovery.left > 0
    /\ \E outcomes \in [1..Len(init_call[1].settings.dns64[1].upstreams) -> DiscoveryOutcomes] :
          LET after == DiscoveryAfter(discovery,
                           TriedFrom(init_call[1].settings.dns64[1].upstreams, outcomes, 1),
                           <<>>)
          IN  /\ discovery' = after.thread
              /\ threads' = [threads EXCEPT
                                !.at["discovery"] = IF after.prefixes # <<>> THEN "lock" ELSE @,
                                !.found = after.prefixes]
    /\ UNCHANGED <<poolVars, settings, dns64_prefixes, response_cache, taskVars, now>>

\* line 682: the lock of the prefixes
DiscoveryLock ==
    /\ threads.at["discovery"] = "lock"
    /\ CanLock(PREFIXES_MTX)
    /\ threads' = [threads EXCEPT !.at["discovery"] = "store",
                                  !.held["discovery"] = @ \cup {Unique(PREFIXES_MTX)}]
    /\ UNCHANGED <<poolVars, settings, dns64_prefixes, discovery, response_cache, taskVars, now>>

\* lines 683-686: the prefixes are stored and the thread ends
DiscoveryStore ==
    /\ threads.at["discovery"] = "store"
    /\ dns64_prefixes' = threads.found
    /\ threads' = [threads EXCEPT !.at["discovery"] = "done",
                                  !.held["discovery"] = @ \ {Unique(PREFIXES_MTX)},
                                  !.found = <<>>]
    /\ UNCHANGED <<poolVars, settings, discovery, response_cache, taskVars, now>>

\* a forwarder with a cache of one entry, optimistic refresh and DNS64
InitThreads ==
    /\ settings = SettingsOf(MaxCacheSize, TRUE, FALSE, "DEFAULT", TRUE)
    /\ upstreams = <<1>>
    /\ fallbacks = <<2>>
    /\ rtt = [u \in UpstreamIds |-> 0]
    /\ inputs = RefreshWorkload
    /\ network = Hostile
    /\ InitForwarder

NextThreads ==
    \/ \E t \in ClientThreads : ClientCall(t)
    \/ \E t \in ClientThreads : ClientLookupLock(t)
    \/ \E t \in ClientThreads : ClientLookup(t)
    \/ \E t \in ClientThreads : ClientEmplaceLock(t)
    \/ \E t \in ClientThreads : ClientEmplace(t)
    \/ \E t \in ClientThreads : ClientReply(t)
    \/ \E t \in ClientThreads : ClientExchange(t)
    \/ \E t \in ClientThreads : ClientDns64Lock(t)
    \/ \E t \in ClientThreads : ClientDns64(t)
    \/ \E t \in ClientThreads : ClientPutLock(t)
    \/ \E t \in ClientThreads : ClientInsert(t)
    \/ WorkerTake
    \/ WorkerExchange
    \/ WorkerLock
    \/ WorkerStore
    \/ FinalizerLock
    \/ FinalizerErase
    \/ DeinitLock
    \/ DeinitCancelQueued
    \/ DeinitWake
    \/ DeinitClearLock
    \/ DeinitClear
    \/ DiscoveryTry
    \/ DiscoveryLock
    \/ DiscoveryStore
    \/ now < ThreadsMaxTime /\ Tick

SpecThreads == InitThreads /\ [][NextThreads]_vars
-----------------------------------------------------------------------------
(* Lock order *)

\* the mutexes a thread holds
HeldBy(t) == { l.mtx : l \in threads.held[t] }

\* the lock a thread is about to take where it is, as a sequence of at most
\* one element
Wanted(t) ==
    CASE t \in ClientThreads /\ threads.at[t] = "lookup"
            /\ ~has_unsupported_extensions(threads.call[t].request) -> <<Shared(CACHE_MTX)>>
      [] t \in ClientThreads /\ threads.at[t] = "registry" -> <<Unique(ASYNC_REQS_MTX)>>
      [] t \in ClientThreads /\ threads.at[t] = "dns64" -> <<Unique(PREFIXES_MTX)>>
      [] t \in ClientThreads /\ threads.at[t] = "put"
            /\ TakesCacheLock(threads.call[t].response) -> <<Unique(CACHE_MTX)>>
      [] t = "worker" /\ threads.at[t] = "lock" -> <<Unique(CACHE_MTX)>>
      [] t = "loop" /\ threads.at[t] = "idle"
            /\ (threads.cancelled # {}
                   \/ \E task \in async_reqs : task.state \in {"put", "erased"})
            -> <<Unique(ASYNC_REQS_MTX)>>
      [] t = "deinit" /\ threads.at[t] = "wait" /\ Drained(async_reqs)
            -> <<Unique(ASYNC_REQS_MTX)>>
      [] t = "deinit" /\ threads.at[t] = "clear" -> <<Unique(CACHE_MTX)>>
      [] t = "discovery" /\ threads.at[t] = "lock" -> <<Unique(PREFIXES_MTX)>>
      [] OTHER -> <<>>

\* t cannot take the lock it wants as long as u holds the one it holds
WaitsFor(t, u) ==
    /\ t # u
    /\ Wanted(t) # <<>>
    /\ \E l \in threads.held[u] :
          l.mtx = Wanted(t)[1].mtx /\ ~(l.shared /\ Wanted(t)[1].shared)

\* t waits for u, directly or through at most n threads
RECURSIVE WaitsThrough(_, _, _)
WaitsThrough(t, u, n) ==
    \/ WaitsFor(t, u)
    \/ n > 1 /\ \E v \in Threads : WaitsFor(t, v) /\ WaitsThrough(v, u, n - 1)

NoCyclicWait == \A t \in Threads : ~WaitsThrough(t, t, Cardinality(Threads))

\* C33: under every interleaving of the handle_message calls, the refresh
\* worker, the finalizers, the DNS64 discovery and deinit, no thread takes
\* the registry lock while it holds the cache lock, a thread that takes the
\* lock of the DNS64 prefixes holds neither of the other two, and no threads
\* wait for each other's locks in a cycle
C33_LockOrder ==
    /\ []NoCyclicWait
    /\ [][\A t \in Threads :
            /\ ASYNC_REQS_MTX \in HeldBy(t)' \ HeldBy(t) => CACHE_MTX \notin HeldBy(t)
            /\ PREFIXES_MTX \in HeldBy(t)' \ HeldBy(t)
                  => HeldBy(t) \cap {ASYNC_REQS_MTX, CACHE_MTX} = {}]_vars

\* the three locks are held at once, by a handle_message call inside the DNS64
\* synthesis, by one inside the registry and by the worker inside the cache,
\* while the discovery thread waits for the lock of the prefixes
C33_Witness ==
    /\ \E t \in ClientThreads : PREFIXES_MTX \in HeldBy(t)
    /\ \E t \in ClientThreads : ASYNC_REQS_MTX \in HeldBy(t)
    /\ CACHE_MTX \in HeldBy("worker")
    /\ \E t \in ClientThreads : WaitsFor("discovery", t)

-----------------------------------------------------------------------------
(* The cache under its lock *)

\* t is inside the cache: it holds the cache lock in either mode
InsideCache(t) == CACHE_MTX \in HeldBy(t)

\* the code t runs under the cache lock changes the entries or their order:
\* a lookup that finds its key relinks the entry (cache.get, cache.make_lru),
\* an insertion, an erasure and the clearing always do
MutatesCache(t) ==
    /\ InsideCache(t)
    /\ t \in ClientThreads /\ threads.at[t] = "get"
          => CacheIndex(response_cache, threads.call[t].cache_key) # 0

\* C34: while one thread changes the entries of the cache or their recency
\* order, no other thread reads or changes the cache
C34_NoConcurrentMutation ==
    \A t, u \in Threads : t # u /\ MutatesCache(t) => ~InsideCache(u)

-----------------------------------------------------------------------------
(* The lifetime of the request and of the task record *)

\* C35: the request that handle_message moved into a refresh task is alive
\* while the call serializes the reply and finalizes the event
C35_RequestOutlivesCall ==
    \A t \in ClientThreads : threads.at[t] = "reply" => ~RequestFreed(t)

\* C36: while the worker or the finalizer of a task runs, the record of the
\* task is in the registry; the finalizer of a task that deinit cancelled
\* and erased does not touch the record
C36_TaskRecordPresent ==
    /\ threads.at["worker"] # "idle" => TaskOf(threads.work["worker"][1]) # {}
    /\ threads.at["loop"] = "erase" => ~threads.work["loop"][1].freed

\* the worker erases the entry of its key after a failed dispatch
WorkerEraseStep ==
    /\ threads.at["worker"] = "store"
    /\ threads'.at["worker"] = "idle"
    /\ threads.ret.response = NoPkt

\* the entry of the key is in the cache and its time is not over
FreshEntry(key) ==
    /\ CacheIndex(response_cache, key) # 0
    /\ CeilSeconds(response_cache[CacheIndex(response_cache, key)].val.expires_at - now) > 0

\* C37: a refresh task whose dispatch failed erases no entry whose time is
\* not over
C37_FailedRefreshErasesOnlyStale ==
    [][WorkerEraseStep => ~FreshEntry(threads.work["worker"][1])]_vars

-----------------------------------------------------------------------------
(* What the cache holds *)

\* the rules of the filter block the hostname
Blocked(hostname) ==
    LET rules == get_effective_rules(filter_match(hostname))
    IN  rules # <<>> /\ ~rules[1].exception

\* no CNAME target and no address of the answer is blocked
CleanAnswer(response) ==
    \A i \in 1..Len(response.answer) :
       LET rr == response.answer[i]
       IN  /\ rr.type = "CNAME" => ~Blocked(DropTrailingDot(ldns_rdf2str(rr.rdfs[1])))
           /\ rr.type \in {"A", "AAAA"} => ~Blocked(addr_to_str(rr.rdfs[1]))

\* C38: no entry of the cache, and no response served from it, holds a CNAME
\* target or an address that the rules of the filter block
C38_CachedResponsesFiltered ==
    /\ \A i \in 1..Len(response_cache) : CleanAnswer(response_cache[i].val.response)
    /\ \A t \in ClientThreads :
          threads.at[t] = "reply" => CleanAnswer(threads.call[t].cached.response)

-----------------------------------------------------------------------------
(* What the upstream path returns *)

\* the hostnames the filter was asked about during the call
MatchedHosts == { obs.filter_log[i] : i \in 1..Len(obs.filter_log) }

\* C39: every CNAME target and every A/AAAA address of a response that
\* handle_message returns from the upstream path was matched against the
\* filter (and, the response being returned, found non-blocking), also the
\* records DNS64 takes from the auxiliary response and the addresses it
\* synthesizes
C39_ForwardedRecordsFiltered ==
    Returned /\ obs.path = "forwarded" =>
       \A i \in 1..Len(Reply.answer) :
          Filterable(Reply.answer[i]) => HostOf(Reply.answer[i]) \in MatchedHosts

\* a refresh worker has returned from put_response_into_cache or from the
\* erasure: the step that completes the refresh of its key
RefreshCompleted(key) ==
    /\ WorkerFinishStep
    /\ \E task \in async_reqs : task.state = "running" /\ task.cache_key = key

\* C40: after a refresh task for a fingerprint has completed, the cache
\* holds for the fingerprint an entry whose time is not over, or none
C40_NoStaleAfterRefresh ==
    [][\A i \in 1..Len(response_cache') :
          RefreshCompleted(response_cache'[i].key)
             => CeilSeconds(response_cache'[i].val.expires_at - now') > 0]_vars

====
